---- MODULE Spec2Model ----
(***************************************************************************)
(* caligra: directory watcher (internal/daemon/watcher.go), daemon         *)
(* (internal/daemon/daemon.go), the daemon command of the CLI, sanitization*)
(* pipeline (internal/wipe/wipe.go), verifier (internal/wipe/verify.go)    *)
(* and the file helpers of internal/util/fileops.go.                       *)
(*                                                                         *)
(* The specifications of the module:                                       *)
(*   Spec          the Watcher, started once: event loop, per-event units, *)
(*                 cleanup loop                                            *)
(*   SpecLife      the Watcher started, stopped and started again          *)
(*   SpecLifeFair  the life cycle under fair scheduling                    *)
(*   SpecDaemon    Daemon.Start / Daemon.Stop and `caligra daemon`         *)
(*   SpecWipe      WipeFile / VerifyFile over a small file system          *)
(*   SpecEvents    the event loop on failing system calls and on trees     *)
(*   SpecLogger    Logger.Log against Logger.Close                         *)
(*   SpecHandler   the Daemon's file handler, fed by directory events      *)
(* File names are sequences of dot-separated components:                   *)
(*   <<"a","jpg">> is "a.jpg", <<"a","volena","jpg">> is "a.volena.jpg".   *)
(* Times are milliseconds.                                                 *)
(***************************************************************************)
EXTENDS Integers, Sequences, FiniteSets, TLC

VARIABLES
    now,          \* wall clock (ms)
    advances,     \* number of clock advances so far
    timeSteps,    \* the durations by which the clock advances in this run
    wOptions,     \* Watcher.options
    running,      \* Watcher.running
    startPc,      \* position of the caller inside Start
    startErr,     \* what the last Start call returned
    subOpen,      \* fsnotify subscription is open
    eventLoop,    \* processEvents goroutines, one per Start: "alive" | "exited"
    cleanupLoop,  \* periodicCleanup goroutines, one per Start:
                  \*   [pc: "poll" | "scan" | "swept" | "exited",
                  \*    tickerNext: time of the next tick of its ticker,
                  \*    tickPending: its ticker.C holds a tick]
    cutoff,       \* cutoff computed by the sweep in progress
    sweepStart,   \* processed map as it was when the sweep took the lock
    sweepAt,      \* the time at which the sweep took the lock
    lockHolder,   \* processLock: "none" | "cleanup" (held across steps)
    processed,    \* Watcher.processed
    units,        \* in-flight per-event goroutines
    dispatchLog,  \* every unit ever spawned: [path, at]
    skipped,      \* paths whose event was rejected for the file's age
    lastFinish,   \* the last handler return: [path, ok, at]
    startsAllowed,\* how many times the caller starts this Watcher in this run
    tree,         \* the paths of this run: [atStart: the directories below
                  \*   the watched root when Start walks it, later: the
                  \*   directories and files: the regular files that
                  \*   create/write events name]
    faulty,       \* os.Stat and fsnotify Add can fail in this run
    traced,       \* this run records the events the loop consumes
    watchSet,     \* the directories whose registration (fsnotify Add) succeeded
    lastEvent     \* the last event the loop consumed and what it did with it

wvars == <<now, advances, wOptions, running, startPc, startErr, subOpen,
           eventLoop, cleanupLoop, cutoff, sweepStart, sweepAt, lockHolder,
           processed, units, dispatchLog, skipped, lastFinish, timeSteps,
                   startsAllowed, tree, faulty, traced, watchSet,
                   lastEvent>>

VARIABLES
    fs,      \* the directory: file name -> file
    wf,      \* the WipeFile call in progress (locals, result, position)
    calls,   \* number of WipeFile and VerifyFile calls so far
    copies,  \* the last copy-mode runs, back to back on one original (at most two)
    vf       \* the last direct VerifyFile call

pvars == <<fs, wf, calls, copies, vf>>

VARIABLES
    dConfig,     \* Daemon.config.Watch.Paths
    dRunning,    \* Daemon.running
    dWatcher,    \* Daemon.watcher: 0 (nil) or an index into watchers
    watchers,    \* the Watchers this Daemon has built: [dirs, running]
    loggerInit,  \* Logger.initialized of Daemon.logger
    dRet,        \* the last call on the Daemon: [op, in (its outcomes of the
                 \*   system calls), err (what it returned)]
    dLogged,     \* the lines the last call wrote to the log
    dCalls,      \* number of calls on the Daemon so far
    lastNew,     \* the last NewWatcher call: [dirs, subOk, out]
    pidFile,     \* ~/.caligra/daemon.pid exists
    daemonProcs, \* processes blocked in select {} after a successful `daemon on`
    cliOut       \* the last line printed by the daemon command

dvars == <<dConfig, dRunning, dWatcher, watchers, loggerInit, dRet, dLogged,
           dCalls, lastNew, pidFile, daemonProcs, cliOut>>

VARIABLES
    lg,         \* the Logger: [initialized, logFile: "file" | "nil", level,
                \*   open: the file behind logFile is open, lines: the
                \*   number of lines written to it]
    logCalls,   \* the Log calls so far: [pc, level, file, ret, wrote]
    closeCalls  \* the Close calls so far: [pc, ret, todo]

lvars == <<lg, logCalls, closeCalls>>

VARIABLES
    hd,         \* the fileHandler call in progress: [pc: "idle" | "wiping" |
                \*   "done", path, err (what it returned), analysed, sensitive
                \*   (the fields its analysis reported), wiped (it called
                \*   WipeFile), fs0 (the directory when it was entered)]
    hEvents,    \* the files with a queued create/write event
    hUnits,     \* the files with a spawned unit that has not called the handler
    hProcessed, \* Watcher.processed of the Daemon's watcher
    hLog,       \* the paths the handler was called with, in order
    hGiven      \* number of files other programs have put into the directory

hvars == <<hd, hEvents, hUnits, hProcessed, hLog, hGiven>>

vars == <<wvars, pvars, dvars, lvars, hvars>>

----------------------------------------------------------------------------
(* Bounds *)

MaxAdvance == 3
MaxDispatch == 2
MaxCalls == 2
MaxStarts == 2
MaxDirs == 3
MaxDaemonCalls == 3
MaxProcs == 2
MaxLogCalls == 2
MaxCloses == 2
MaxGiven == 2
MaxHandlerCalls == 3

(* Program constants (ms) *)

SettleDelay == 500
DedupeWindow == 60000
CleanupInterval == 900000
RetentionAge == 3600000
DaemonMinFileAge == 2000

\* a nil pointer or map
Nil == [nil |-> TRUE]

\* a nil error
NoErr == ""

\* clock granularities: around the dedupe window, around the sweep
FineSteps == {SettleDelay, DedupeWindow}
CoarseSteps == {DedupeWindow, RetentionAge}
HourSteps == {RetentionAge}

----------------------------------------------------------------------------
(* Paths *)

WatchedFiles == { <<"a", "JPG">>, <<"c", "txt">> }

\* directories: a path is the sequence of its components

\* the watched directory (Watcher.dirs)
Root == <<"in">>

\* directories below the root when Start walks it
StartDirs == { <<"in", "sub">>, <<"in", ".git">>, <<"in", ".git", "objects">> }

\* directories that are created after Start
LaterDirs == { <<"in", "new">>, <<"in", "my.github">> }

DirPaths == {Root} \cup StartDirs \cup LaterDirs

\* strings.ToLower on the extension tokens of the model
ToLower(s) == CASE s = "JPG" -> "jpg"
                [] s = "TXT" -> "txt"
                [] OTHER -> s

\* filepath.Ext: the suffix from the last dot of the name, empty without a dot
\* (a token stands for the dotted suffix: "jpg" is ".jpg")
Ext(p) ==
    IF p \in DirPaths
    THEN (CASE p[Len(p)] = ".git" -> <<"git">>
            [] p[Len(p)] = "my.github" -> <<"github">>
            [] OTHER -> <<>>)
    ELSE (IF Len(p) >= 2 THEN <<p[Len(p)]>> ELSE <<>>)

LowerExt(p) == [i \in DOMAIN Ext(p) |-> ToLower(Ext(p)[i])]

\* the exclusion list Daemon.Start configures
ExcludeDirs == <<".git", "node_modules", ".venv">>

\* WatchOptions
Options(exts, minAge, recursive) ==
    [Extensions |-> exts, ExcludeDirs |-> ExcludeDirs,
     MinFileAge |-> minAge, Recursive |-> recursive]

\* the options without an allow-list and without a minimum age
OpenOptions == Options(<<>>, 0, TRUE)

\* the daemon's options as Daemon.Start builds them
DaemonOptions == Options(<<"jpg">>, DaemonMinFileAge, TRUE)

WatchOptionsSet == { OpenOptions, DaemonOptions }

\* daemon options whose allow-list matches none of the watched files
NoMatchOptions == Options(<<"png">>, DaemonMinFileAge, TRUE)

\* options that watch the listed directories only
FlatOptions == Options(<<>>, 0, FALSE)

----------------------------------------------------------------------------
(* Directory trees, exclusion and registration *)

\* a watched directory that holds the watched files and no directory
NoTree == [atStart |-> {}, later |-> {}, files |-> WatchedFiles]

\* a watched directory in which only directories appear
DirTree == [atStart |-> StartDirs, later |-> LaterDirs, files |-> {}]

\* equality of a component with an exclusion entry in place of Contains
ContainsExact(name, sub) ==
    name = sub

\* strings.Contains on one component: the component is the substring or
\* has it inside
Contains(name, sub) ==
    \/ name = sub
    \/ <<name, sub>> \in { <<"my.github", ".git">> }

\* strings.Contains(path, exclude) for some entry of ExcludeDirs (no entry
\* holds a separator, so a match lies inside one component)
Excluded(opts, d) ==
    \E i \in DOMAIN opts.ExcludeDirs : \E k \in DOMAIN d :
        Contains(d[k], opts.ExcludeDirs[i])

\* filepath.Walk never reaches d: d or a directory above it returned SkipDir
Skipped(opts, d) ==
    \E k \in 1..Len(d) : Excluded(opts, SubSeq(d, 1, k))

\* the directories Start tries to register
StartTargets(opts, tr) ==
    IF opts.Recursive
    THEN { d \in {Root} \cup tr.atStart : ~Skipped(opts, d) }
    ELSE {Root}

\* the sets of directories whose registration can succeed: none once the
\* subscription is closed, any of them when system calls can fail
Registrations(opts, tr, open, flt) ==
    IF ~open THEN {{}}
    ELSE IF flt THEN SUBSET StartTargets(opts, tr)
    ELSE {StartTargets(opts, tr)}

\* os.Stat returned an error (in place of the file's age)
StatFailed == 0 - 1

----------------------------------------------------------------------------
(* shouldProcessFile *)

\* the allow-list compared without lower-casing the file's extension
ExtensionAllowedCaseSensitive(opts, p) ==
    \/ Len(opts.Extensions) = 0
    \/ \E i \in DOMAIN opts.Extensions :
          Ext(p) = <<ToLower(opts.Extensions[i])>>

ExtensionAllowed(opts, p) ==
    \/ Len(opts.Extensions) = 0
    \/ \E i \in DOMAIN opts.Extensions :
          LowerExt(p) = <<ToLower(opts.Extensions[i])>>

\* time.Since(info.ModTime()) < MinFileAge rejects
OldEnough(opts, age) ==
    \/ ~(opts.MinFileAge > 0)
    \/ /\ age # StatFailed
       /\ ~(age < opts.MinFileAge)

NotRecentlyProcessed(proc, t, p) ==
    ~(p \in DOMAIN proc /\ t - proc[p] < DedupeWindow)

\* markProcessed: processed[path] = time.Now()
markProcessed(proc, t, p) == (p :> t) @@ proc

\* the sweep with !processed.After(cutoff) in place of Before
ExpiredInclusive(proc, c) == { p \in DOMAIN proc : proc[p] <= c }

\* the entries the sweep deletes: processed.Before(cutoff)
Expired(proc, c) == { p \in DOMAIN proc : proc[p] < c }

Restrict(f, S) == [x \in S |-> f[x]]

----------------------------------------------------------------------------
(* Initial state: the Watcher as NewWatcher returns it *)

WInit ==
    /\ now = 0
    /\ advances = 0
    /\ timeSteps \in {FineSteps, CoarseSteps, HourSteps}
    /\ wOptions \in WatchOptionsSet \cup {NoMatchOptions, FlatOptions}
    /\ tree \in {NoTree, DirTree}
    /\ faulty \in BOOLEAN
    /\ traced \in BOOLEAN
    /\ watchSet = {}
    /\ lastEvent = Nil
    /\ running = FALSE
    /\ startPc = "idle"
    /\ startErr = NoErr
    /\ subOpen = TRUE
    /\ eventLoop = <<>>
    /\ cleanupLoop = <<>>
    /\ cutoff = 0
    /\ sweepStart = <<>>
    /\ sweepAt = 0
    /\ lockHolder = "none"
    /\ processed = <<>>
    /\ units = {}
    /\ dispatchLog = <<>>
    /\ skipped = {}
    /\ lastFinish = Nil

\* the goroutines that have not returned
LiveEventLoops == { i \in DOMAIN eventLoop : eventLoop[i] = "alive" }

LiveCleanupLoops == { i \in DOMAIN cleanupLoop : cleanupLoop[i].pc # "exited" }

ExitedLoop == [pc |-> "exited", tickerNext |-> 0, tickPending |-> FALSE]

----------------------------------------------------------------------------
(* Watcher.Start *)

\* Start on a watcher that is not running, up to the launch of the two
\* goroutines (running is still false). The directories are registered with
\* the subscription; a failure to register one is only logged.
Start_Begin(reg) ==
    /\ startPc = "idle"
    /\ ~running
    /\ Len(cleanupLoop) < startsAllowed
    /\ reg \in Registrations(wOptions, tree, subOpen, faulty)
    /\ watchSet' = watchSet \cup reg
    /\ startPc' = "launched"
    /\ eventLoop' = Append(eventLoop, "alive")
    /\ cleanupLoop' = Append(cleanupLoop,
          [pc |-> "poll", tickerNext |-> now + CleanupInterval,
           tickPending |-> FALSE])
    /\ UNCHANGED <<now, advances, wOptions, running, startErr, subOpen, cutoff,
                   sweepStart, sweepAt, lockHolder, processed, units,
                   dispatchLog, skipped, lastFinish, timeSteps,
                   startsAllowed, tree, faulty, traced, lastEvent>>
    /\ UNCHANGED <<pvars, dvars, lvars, hvars>>

\* w.running = true; return nil
Start_End ==
    /\ startPc = "launched"
    /\ startPc' = "idle"
    /\ running' = TRUE
    /\ startErr' = NoErr
    /\ UNCHANGED <<now, advances, wOptions, subOpen, eventLoop, cleanupLoop,
                   cutoff, sweepStart, sweepAt, lockHolder, processed, units,
                   dispatchLog, skipped, lastFinish, timeSteps,
                   startsAllowed, tree, faulty, traced, watchSet,
                   lastEvent>>
    /\ UNCHANGED <<pvars, dvars, lvars, hvars>>

\* if w.running { return error }
Start_Reject ==
    /\ startPc = "idle"
    /\ running
    /\ startErr' = "watcher already running"
    /\ UNCHANGED <<now, advances, wOptions, running, startPc, subOpen,
                   eventLoop, cleanupLoop, cutoff, sweepStart, sweepAt,
                   lockHolder, processed, units, dispatchLog, skipped,
                   lastFinish, timeSteps,
                   startsAllowed, tree, faulty, traced, watchSet,
                   lastEvent>>
    /\ UNCHANGED <<pvars, dvars, lvars, hvars>>

\* Stop that cancels the units in flight
StopCancelling ==
    /\ startPc = "idle"
    /\ running
    /\ subOpen' = FALSE
    /\ running' = FALSE
    /\ units' = {}
    /\ UNCHANGED <<now, advances, wOptions, startPc, startErr, eventLoop,
                   cleanupLoop, cutoff, sweepStart, sweepAt, lockHolder,
                   processed, dispatchLog, skipped, lastFinish, timeSteps,
                   startsAllowed, tree, faulty, traced, watchSet,
                   lastEvent>>
    /\ UNCHANGED <<pvars, dvars, lvars, hvars>>

\* Watcher.Stop on a running watcher: close the subscription, running = false
\* (on a watcher that is not running it returns nil and does nothing)
Stop ==
    /\ startPc = "idle"
    /\ running
    /\ subOpen' = FALSE
    /\ running' = FALSE
    /\ UNCHANGED <<now, advances, wOptions, startPc, startErr, eventLoop,
                   cleanupLoop, cutoff, sweepStart, sweepAt, lockHolder,
                   processed, units, dispatchLog, skipped, lastFinish,
                   timeSteps,
                   startsAllowed, tree, faulty, traced, watchSet,
                   lastEvent>>
    /\ UNCHANGED <<pvars, dvars, lvars, hvars>>

----------------------------------------------------------------------------
(* processEvents *)

\* ages (ms) a file can have when its create/write event is consumed
FileAges == {0, DaemonMinFileAge}

\* shouldProcessFile; the file was last modified age ms ago
shouldProcessFile(opts, proc, t, p, age) ==
    /\ ExtensionAllowed(opts, p)
    /\ OldEnough(opts, age)
    /\ NotRecentlyProcessed(proc, t, p)

\* the directory whose registration delivers the events for p (the watched
\* files lie in the root)
Parent(p) == IF p \in DirPaths THEN SubSeq(p, 1, Len(p) - 1) ELSE Root

\* what the loop did with an event
Event(p, age, accepted) ==
    IF traced
    THEN [path |-> p, age |-> age, accepted |-> accepted, add |-> "none"]
    ELSE lastEvent

\* what the loop did with an event for a directory; add is the outcome of
\* the call of the subscription's Add: "none" (not called), "ok", "failed"
DirEvent(p, age, add) ==
    IF traced
    THEN [path |-> p, age |-> age, accepted |-> FALSE, add |-> add]
    ELSE lastEvent

\* an error read from the Errors channel
ErrorEvent == Event(<<>>, 0, FALSE)

\* one iteration of the loop: a create/write event for the path p, a watched
\* file or a directory; os.Stat gives the age or fails (a path that is gone
\* is no directory); addOk is the result of registering p. In recursive mode a directory is registered unless
\* excluded and nothing else is done; any other path goes through
\* shouldProcessFile: an accepted event spawns a unit, a rejected one is
\* dropped (the rejection for the file's age is recorded in skipped).
HandleEvent(p, age, addOk) ==
    /\ LiveEventLoops # {}
    /\ subOpen
    /\ p \in tree.files \cup tree.later
    /\ Parent(p) \in watchSet
    /\ (age = StatFailed \/ ~addOk) => faulty
    /\ age = StatFailed => p \notin DirPaths
    /\ IF wOptions.Recursive /\ age # StatFailed /\ p \in DirPaths
       THEN /\ watchSet' = IF ~Excluded(wOptions, p) /\ addOk
                           THEN watchSet \cup {p}
                           ELSE watchSet
            /\ lastEvent' = DirEvent(p, age,
                                     IF Excluded(wOptions, p) THEN "none"
                                     ELSE IF addOk THEN "ok" ELSE "failed")
            /\ UNCHANGED <<dispatchLog, units, skipped>>
       ELSE IF ~(ExtensionAllowed(wOptions, p) /\ OldEnough(wOptions, age))
       THEN /\ skipped' = IF ExtensionAllowed(wOptions, p)
                          THEN skipped \cup {p}
                          ELSE skipped
            /\ lastEvent' = Event(p, age, FALSE)
            /\ UNCHANGED <<dispatchLog, units, watchSet>>
       ELSE /\ lockHolder = "none"
            /\ IF NotRecentlyProcessed(processed, now, p)
               THEN /\ Len(dispatchLog) < MaxDispatch
                    /\ dispatchLog' =
                         Append(dispatchLog, [path |-> p, at |-> now])
                    /\ units' = units \cup
                         { [id |-> Len(dispatchLog) + 1, path |-> p,
                            phase |-> "sleeping"] }
                    /\ lastEvent' = Event(p, age, TRUE)
               ELSE /\ lastEvent' = Event(p, age, FALSE)
                    /\ UNCHANGED <<dispatchLog, units>>
            /\ UNCHANGED <<skipped, watchSet>>
    /\ UNCHANGED <<now, advances, wOptions, running, startPc, startErr,
                   subOpen, eventLoop, cleanupLoop, cutoff, sweepStart,
                   sweepAt, lockHolder, processed, lastFinish, timeSteps,
                   startsAllowed, tree, faulty, traced>>
    /\ UNCHANGED <<pvars, dvars, lvars, hvars>>

\* an error from the Errors channel makes the loop return
HandleErrorReturning ==
    /\ LiveEventLoops # {}
    /\ subOpen
    /\ lastEvent' = ErrorEvent
    /\ eventLoop' = [i \in DOMAIN eventLoop |-> "exited"]
    /\ UNCHANGED <<now, advances, wOptions, running, startPc, startErr,
                   subOpen, cleanupLoop, cutoff, sweepStart,
                   sweepAt, lockHolder, processed, units, dispatchLog,
                   skipped, lastFinish, timeSteps, startsAllowed, tree,
                   faulty, traced, watchSet>>
    /\ UNCHANGED <<pvars, dvars, lvars, hvars>>

\* one iteration of the loop: an error from the Errors channel is logged
HandleError ==
    /\ LiveEventLoops # {}
    /\ subOpen
    /\ lastEvent' = ErrorEvent
    /\ UNCHANGED <<now, advances, wOptions, running, startPc, startErr,
                   subOpen, eventLoop, cleanupLoop, cutoff, sweepStart,
                   sweepAt, lockHolder, processed, units, dispatchLog,
                   skipped, lastFinish, timeSteps, startsAllowed, tree,
                   faulty, traced, watchSet>>
    /\ UNCHANGED <<pvars, dvars, lvars, hvars>>

\* the Events channel was closed: return
EventLoopExit(i) ==
    /\ i \in LiveEventLoops
    /\ ~subOpen
    /\ eventLoop' = [eventLoop EXCEPT ![i] = "exited"]
    /\ UNCHANGED <<now, advances, wOptions, running, startPc, startErr,
                   subOpen, cleanupLoop, cutoff, sweepStart, sweepAt,
                   lockHolder, processed, units, dispatchLog, skipped,
                   lastFinish, timeSteps,
                   startsAllowed, tree, faulty, traced, watchSet,
                   lastEvent>>
    /\ UNCHANGED <<pvars, dvars, lvars, hvars>>

----------------------------------------------------------------------------
(* The per-event unit: sleep 500ms, handler, markProcessed *)

\* the unit taking processLock before it calls the handler
UnitWakeLocking(u) ==
    /\ u \in units
    /\ u.phase = "sleeping"
    /\ now >= dispatchLog[u.id].at + SettleDelay
    /\ lockHolder = "none"
    /\ lockHolder' = "unit"
    /\ units' = (units \ {u}) \cup {[u EXCEPT !.phase = "handling"]}
    /\ UNCHANGED <<now, advances, wOptions, running, startPc, startErr,
                   subOpen, eventLoop, cleanupLoop, cutoff, sweepStart,
                   sweepAt, processed, dispatchLog, skipped,
                   lastFinish, timeSteps,
                   startsAllowed, tree, faulty, traced, watchSet,
                   lastEvent>>
    /\ UNCHANGED <<pvars, dvars, lvars, hvars>>

\* the settle delay is over, the handler is entered
UnitWake(u) ==
    /\ u \in units
    /\ u.phase = "sleeping"
    /\ now >= dispatchLog[u.id].at + SettleDelay
    /\ units' = (units \ {u}) \cup {[u EXCEPT !.phase = "handling"]}
    /\ UNCHANGED <<now, advances, wOptions, running, startPc, startErr,
                   subOpen, eventLoop, cleanupLoop, cutoff, sweepStart,
                   sweepAt, lockHolder, processed, dispatchLog, skipped,
                   lastFinish, timeSteps,
                   startsAllowed, tree, faulty, traced, watchSet,
                   lastEvent>>
    /\ UNCHANGED <<pvars, dvars, lvars, hvars>>

\* the unit with markProcessed in the else branch of the error check
UnitFinishMarkOnSuccess(u, ok) ==
    /\ u \in units
    /\ u.phase = "handling"
    /\ lockHolder = "none"
    /\ units' = units \ {u}
    /\ processed' = IF ok THEN markProcessed(processed, now, u.path)
                          ELSE processed
    /\ lastFinish' = [path |-> u.path, ok |-> ok, at |-> now]
    /\ UNCHANGED <<now, advances, wOptions, running, startPc, startErr,
                   subOpen, eventLoop, cleanupLoop, cutoff, sweepStart,
                   sweepAt, lockHolder, dispatchLog, skipped, timeSteps,
                   startsAllowed, tree, faulty, traced, watchSet,
                   lastEvent>>
    /\ UNCHANGED <<pvars, dvars, lvars, hvars>>

\* the handler returned (ok or error); markProcessed in both cases
UnitFinish(u, ok) ==
    /\ u \in units
    /\ u.phase = "handling"
    /\ lockHolder = "none"
    /\ units' = units \ {u}
    /\ processed' = markProcessed(processed, now, u.path)
    /\ lastFinish' = [path |-> u.path, ok |-> ok, at |-> now]
    /\ UNCHANGED <<now, advances, wOptions, running, startPc, startErr,
                   subOpen, eventLoop, cleanupLoop, cutoff, sweepStart,
                   sweepAt, lockHolder, dispatchLog, skipped, timeSteps,
                   startsAllowed, tree, faulty, traced, watchSet,
                   lastEvent>>
    /\ UNCHANGED <<pvars, dvars, lvars, hvars>>

----------------------------------------------------------------------------
(* periodicCleanup *)

\* case <-ticker.C: take the lock, compute the cutoff
CleanupTick(i) ==
    /\ i \in DOMAIN cleanupLoop
    /\ cleanupLoop[i].pc = "poll"
    /\ cleanupLoop[i].tickPending
    /\ lockHolder = "none"
    /\ lockHolder' = "cleanup"
    /\ cutoff' = now - RetentionAge
    /\ sweepStart' = processed
    /\ sweepAt' = now
    /\ cleanupLoop' = [cleanupLoop EXCEPT ![i].pc = "scan",
                                          ![i].tickPending = FALSE]
    /\ UNCHANGED <<now, advances, wOptions, running, startPc, startErr,
                   subOpen, eventLoop, processed, units, dispatchLog, skipped,
                   lastFinish, timeSteps,
                   startsAllowed, tree, faulty, traced, watchSet,
                   lastEvent>>
    /\ UNCHANGED <<pvars, dvars, lvars, hvars>>

\* the range loop: every entry timestamped before the cutoff is deleted
CleanupSweep(i) ==
    /\ i \in DOMAIN cleanupLoop
    /\ cleanupLoop[i].pc = "scan"
    /\ processed' = Restrict(processed, DOMAIN processed \ Expired(processed, cutoff))
    /\ cleanupLoop' = [cleanupLoop EXCEPT ![i].pc = "swept"]
    /\ UNCHANGED <<now, advances, wOptions, running, startPc, startErr,
                   subOpen, eventLoop, cutoff, sweepStart, sweepAt, lockHolder,
                   units, dispatchLog, skipped, lastFinish, timeSteps,
                   startsAllowed, tree, faulty, traced, watchSet,
                   lastEvent>>
    /\ UNCHANGED <<pvars, dvars, lvars, hvars>>

\* w.processLock.Unlock()
CleanupUnlock(i) ==
    /\ i \in DOMAIN cleanupLoop
    /\ cleanupLoop[i].pc = "swept"
    /\ lockHolder' = "none"
    /\ cleanupLoop' = [cleanupLoop EXCEPT ![i].pc = "poll"]
    /\ cutoff' = 0
    /\ sweepAt' = 0
    /\ sweepStart' = <<>>
    /\ UNCHANGED <<now, advances, wOptions, running, startPc, startErr,
                   subOpen, eventLoop, processed, units, dispatchLog, skipped,
                   lastFinish, timeSteps,
                   startsAllowed, tree, faulty, traced, watchSet,
                   lastEvent>>
    /\ UNCHANGED <<pvars, dvars, lvars, hvars>>

\* default branch: if !w.running { return }; otherwise sleep a second and
\* select again (w.running is read without the lock)
CleanupExit(i) ==
    /\ i \in DOMAIN cleanupLoop
    /\ cleanupLoop[i].pc = "poll"
    /\ ~cleanupLoop[i].tickPending
    /\ ~running
    /\ cleanupLoop' = [cleanupLoop EXCEPT ![i] = ExitedLoop]
    /\ UNCHANGED <<now, advances, wOptions, running, startPc, startErr,
                   subOpen, eventLoop, cutoff, sweepStart, sweepAt, lockHolder,
                   processed, units, dispatchLog, skipped, lastFinish,
                   timeSteps,
                   startsAllowed, tree, faulty, traced, watchSet,
                   lastEvent>>
    /\ UNCHANGED <<pvars, dvars, lvars, hvars>>

----------------------------------------------------------------------------
(* The accesses to the Watcher's fields that each task's next step makes *)

Access(task, field, kind, locked) ==
    [task |-> task, field |-> field, kind |-> kind, locked |-> locked]

\* the caller of Start and Stop: both test w.running on entry; Start assigns
\* it after the two go statements, Stop after closing the subscription
CallerAccesses ==
    IF startPc = "launched"
    THEN { Access(<<"caller", 0>>, "running", "write", FALSE) }
    ELSE { Access(<<"caller", 0>>, "running", "read", FALSE) } \cup
         (IF running THEN { Access(<<"caller", 0>>, "running", "write", FALSE) }
                     ELSE {})

\* processEvents: shouldProcessFile reads the map between Lock and Unlock
EventLoopAccesses(i) ==
    IF eventLoop[i] = "alive" /\ subOpen
    THEN { Access(<<"events", i>>, "processed", "read", TRUE) }
    ELSE {}

\* a unit: markProcessed writes the map between Lock and Unlock
UnitAccesses(u) ==
    IF u.phase = "handling"
    THEN { Access(<<"unit", u.id>>, "processed", "write", TRUE) }
    ELSE {}

\* periodicCleanup: the sweep works on the map between Lock and Unlock; the
\* default branch reads w.running with no lock held
CleanupAccesses(i) ==
    CASE cleanupLoop[i].pc = "poll" /\ cleanupLoop[i].tickPending ->
            { Access(<<"cleanup", i>>, "processed", "read", TRUE) }
      [] cleanupLoop[i].pc = "poll" /\ ~cleanupLoop[i].tickPending ->
            { Access(<<"cleanup", i>>, "running", "read", FALSE) }
      [] cleanupLoop[i].pc = "scan" ->
            { Access(<<"cleanup", i>>, "processed", "write", TRUE) }
      [] OTHER -> {}

NextAccesses ==
    CallerAccesses
      \cup UNION { EventLoopAccesses(i) : i \in DOMAIN eventLoop }
      \cup UNION { UnitAccesses(u) : u \in units }
      \cup UNION { CleanupAccesses(i) : i \in DOMAIN cleanupLoop }

----------------------------------------------------------------------------
(* Time *)

\* a ticker delivers a tick when its period elapses (channel of capacity 1)
Tick(l, t) ==
    IF l.pc # "exited" /\ t >= l.tickerNext
    THEN [l EXCEPT !.tickPending = TRUE,
                   !.tickerNext = l.tickerNext +
                      CleanupInterval * (((t - l.tickerNext) \div CleanupInterval) + 1)]
    ELSE l

AdvanceTime(d) ==
    /\ advances < MaxAdvance
    /\ advances' = advances + 1
    /\ now' = now + d
    /\ cleanupLoop' = [i \in DOMAIN cleanupLoop |-> Tick(cleanupLoop[i], now + d)]
    /\ UNCHANGED <<wOptions, running, startPc, startErr, subOpen, eventLoop,
                   cutoff, sweepStart, sweepAt, lockHolder, processed, units,
                   dispatchLog, skipped, lastFinish, timeSteps,
                   startsAllowed, tree, faulty, traced, watchSet,
                   lastEvent>>
    /\ UNCHANGED <<pvars, dvars, lvars, hvars>>

----------------------------------------------------------------------------

Next ==
    \/ \E reg \in SUBSET ({Root} \cup StartDirs) : Start_Begin(reg)
    \/ Start_End
    \/ Start_Reject
    \/ Stop
    \/ \E p \in WatchedFiles \cup LaterDirs, age \in FileAges \cup {StatFailed},
          addOk \in BOOLEAN : HandleEvent(p, age, addOk)
    \/ HandleError
    \/ \E i \in DOMAIN eventLoop : EventLoopExit(i)
    \/ \E u \in units : UnitWake(u)
    \/ \E u \in units, ok \in BOOLEAN : UnitFinish(u, ok)
    \/ \E i \in DOMAIN cleanupLoop : CleanupTick(i)
    \/ \E i \in DOMAIN cleanupLoop : CleanupSweep(i)
    \/ \E i \in DOMAIN cleanupLoop : CleanupUnlock(i)
    \/ \E i \in DOMAIN cleanupLoop : CleanupExit(i)
    \/ \E d \in timeSteps : AdvanceTime(d)

----------------------------------------------------------------------------
(***************************************************************************)
(* The sanitization pipeline                                               *)
(***************************************************************************)


\* no handler
NoHandler == ""

----------------------------------------------------------------------------
(* Files *)

Orig == <<"a", "jpg">>        \* a JPEG with sensitive metadata
Garbage == <<"g", "htm">>     \* binary data under an extension no handler supports
Unknown == <<"u", "xyz">>     \* binary data under an unknown extension
ReadOnly == <<"r", "jpg">>    \* a JPEG the process may not write
Missing == <<"m", "jpg">>     \* no such file

CallPaths == {Orig, Garbage, Unknown, ReadOnly, Missing}

NoMeta == <<>>

CameraMeta == ("Artist" :> "John Doe") @@ ("GPSPosition" :> "48.1, 11.5")

File(body, meta, magic, intact, mode) ==
    [body |-> body, meta |-> meta, magic |-> magic, intact |-> intact,
     mode |-> mode]

\* what an interrupted io.Copy leaves behind
PartialFile == File("partial", NoMeta, "", FALSE, "rw")

\* what os.Create leaves before the first byte is written
EmptyFile == File("", NoMeta, "", FALSE, "rw")

BaseFs ==
    (Orig :> File("photo", CameraMeta, "jpg", TRUE, "rw")) @@
    (Garbage :> File("blob", NoMeta, "", TRUE, "rw")) @@
    (Unknown :> File("blob", NoMeta, "", TRUE, "rw")) @@
    (ReadOnly :> File("photo", CameraMeta, "jpg", TRUE, "ro"))

\* the same directory with a ".bak" left over from an earlier version of Orig
StaleFs ==
    (Orig \o <<"bak">> :> File("old photo", CameraMeta, "jpg", TRUE, "rw")) @@ BaseFs

InitialFileSystems == {BaseFs, StaleFs}

Exists(fsys, p) == p \in DOMAIN fsys

WriteFile(fsys, p, f) == (p :> f) @@ fsys

RemoveFile(fsys, p) == Restrict(fsys, DOMAIN fsys \ {p})

\* util.ValidatePath: exists, regular, readable, writable
ValidatePath(fsys, p) == Exists(fsys, p) /\ fsys[p].mode = "rw"

\* GenerateOutputPath without the marker
GenerateOutputPathSame(p) == p

\* util.GenerateOutputPath: basePath + ".volena" + ext
GenerateOutputPath(p) ==
    IF Len(p) >= 2
    THEN SubSeq(p, 1, Len(p) - 1) \o <<"volena">> \o Ext(p)
    ELSE p \o <<"volena">>

\* backupPath := path + ".bak"
BackupPathOf(p) == p \o <<"bak">>

----------------------------------------------------------------------------
(* internal/util/fileops.go: SafeCopy, CreateBackup *)

CopyOutcomes == {"ok", "create_failed", "copy_failed"}

\* SafeCopy(src, dst): os.Create truncates dst, io.Copy fills it, the
\* SHA-256 of both files is compared.  Returns the new directory and the error.
SafeCopy(fsys, src, dst, outcome) ==
    IF ~Exists(fsys, src)
    THEN [fs |-> fsys, err |-> "failed to open source file"]
    ELSE IF outcome = "create_failed" \/ (Exists(fsys, dst) /\ fsys[dst].mode = "ro")
    THEN [fs |-> fsys, err |-> "failed to create destination file"]
    ELSE IF outcome = "copy_failed"
    THEN [fs |-> WriteFile(fsys, dst, PartialFile),
          err |-> "failed to copy file contents"]
    ELSE LET created == WriteFile(fsys, dst, EmptyFile)
             copied == WriteFile(created, dst, [created[src] EXCEPT !.mode = "rw"])
         IN  IF [copied[src] EXCEPT !.mode = "rw"] /= copied[dst]
             THEN [fs |-> copied, err |-> "integrity verification failed"]
             ELSE [fs |-> copied, err |-> NoErr]

\* CreateBackup(path): an existing ".bak" is returned as the backup
CreateBackup(fsys, p, outcome) ==
    IF Exists(fsys, BackupPathOf(p))
    THEN [fs |-> fsys, err |-> NoErr, backupPath |-> BackupPathOf(p)]
    ELSE LET c == SafeCopy(fsys, p, BackupPathOf(p), outcome)
         IN  IF c.err /= NoErr
             THEN [fs |-> c.fs, err |-> "failed to create backup", backupPath |-> <<>>]
             ELSE [fs |-> c.fs, err |-> NoErr, backupPath |-> BackupPathOf(p)]

----------------------------------------------------------------------------
(* internal/analyse/detector.go, internal/formats/formats.go *)

NoType == [Format |-> "", Extension |-> ""]

\* detectByMagicNumbers on the signatures of the model's files
detectByMagicNumbers(f) ==
    CASE f.magic = "jpg"  -> [Format |-> "image", Extension |-> "jpg"]
      [] f.magic = "html" -> [Format |-> "text", Extension |-> "html"]
      [] OTHER -> NoType

detectByExtension(ext) ==
    CASE ext \in {"jpg", "jpeg", "png", "gif", "tiff", "svg"} ->
             [Format |-> "image", Extension |-> ext]
      [] ext \in {"mp3", "flac", "opus", "ogg"} ->
             [Format |-> "audio", Extension |-> ext]
      [] ext \in {"mp4", "avi"} -> [Format |-> "video", Extension |-> ext]
      [] ext \in {"txt", "md", "html", "htm"} ->
             [Format |-> "text", Extension |-> ext]
      [] OTHER -> NoType

\* DetectFile: magic numbers first, extension as the fallback; NoType is the
\* "unknown file type" error
DetectFile(fsys, p) ==
    LET byMagic == IF Exists(fsys, p) THEN detectByMagicNumbers(fsys[p]) ELSE NoType
        ext == IF LowerExt(p) = <<>> THEN "" ELSE LowerExt(p)[1]
    IN  IF byMagic.Format /= "" THEN byMagic ELSE detectByExtension(ext)

SupportedFormats ==
    {"jpg", "jpeg", "png", "gif", "tiff", "svg", "mp3", "flac", "opus", "ogg",
     "mp4", "avi", "txt", "md", "html"}

IsSupported(extension) == extension \in SupportedFormats

Handlers == {"image", "audio", "video", "text"}

\* formats.GetHandler: the handler is named by its format, NoHandler is the error
GetHandler(format) == IF format \in Handlers THEN format ELSE NoHandler

\* handler.VerifyIntegrity: the external validator accepts the file; the text
\* handler only reads it
VerifyIntegrity(handler, f) == IF handler = "text" THEN TRUE ELSE f.intact

----------------------------------------------------------------------------
(* internal/config/profile.go, internal/util/exiftool.go, fileops.go *)

DefaultProfile ==
    ("author" :> "nynynn") @@ ("software" :> "liberty/1.0") @@
    ("created" :> "2000-01-01") @@ ("organization" :> "none") @@
    ("location" :> "unknown") @@ ("comment" :> "sanitized")

\* a caller-supplied override
CustomProfile1 == ("author" :> "anon") @@ ("comment" :> "")

\* an override with dynamic values
DynamicProfile == ("created" :> "{{now}}") @@ ("comment" :> "{{random}}")

\* an override with dynamic values under keys whose tags the Verifier matches
AliasDynamicProfile == ("created" :> "{{now}}") @@ ("author" :> "{{random}}")

\* an override that spells the author of the camera file in lower case
CaseProfile == ("author" :> "john doe")

\* config.LoadProfile finds no profile.lua: the callers fall back to the default
LoadedProfile == DefaultProfile

\* strings.ToLower on the metadata keys of the model
LowerKey(k) ==
    CASE k = "Artist" -> "artist"
      [] k = "GPSPosition" -> "gpsposition"
      [] k = "Software" -> "software"
      [] k = "CreateDate" -> "createdate"
      [] k = "Copyright" -> "copyright"
      [] k = "Location" -> "location"
      [] k = "UserComment" -> "usercomment"
      [] k = "Comment" -> "comment"
      [] k = "Date" -> "date"
      [] k = "EncodedBy" -> "encodedby"
      [] k = "Publisher" -> "publisher"
      [] k = "Composer" -> "composer"
      [] OTHER -> k

AuthorVariations == {"author", "creator", "artist", "by"}
LocationVariations == {"location", "place", "where"}
DateVariations == {"date", "created", "createdate", "when"}

KeysMatch(key1, key2) ==
    \/ LowerKey(key1) = LowerKey(key2)
    \/ LowerKey(key1) \in AuthorVariations /\ LowerKey(key2) \in AuthorVariations
    \/ LowerKey(key1) \in LocationVariations /\ LowerKey(key2) \in LocationVariations
    \/ LowerKey(key1) \in DateVariations /\ LowerKey(key2) \in DateVariations

\* util.IsSensitiveField: the lower-cased key contains a name of
\* GetSensitiveMetadataFields
SensitiveKeys ==
    {"artist", "gpsposition", "software", "createdate", "copyright", "location"}

IsSensitiveField(k) == LowerKey(k) \in SensitiveKeys

ProfileMappings ==
    ("artist" :> "author") @@ ("author" :> "author") @@ ("creator" :> "author") @@
    ("software" :> "software") @@ ("createdate" :> "created") @@
    ("datecreated" :> "created") @@ ("copyright" :> "organization") @@
    ("organization" :> "organization") @@ ("location" :> "location") @@
    ("usercomment" :> "comment") @@ ("comment" :> "comment")

\* isProfileMetadata: the value is the one the loaded profile injects (the
\* values of the model hold no ':' and differ in more than case)
isProfileMetadata(k, v, profileValues) ==
    /\ LowerKey(k) \in DOMAIN ProfileMappings
    /\ ProfileMappings[LowerKey(k)] \in DOMAIN profileValues
    /\ v = profileValues[ProfileMappings[LowerKey(k)]]

identifySensitiveFields(meta) ==
    { k \in DOMAIN meta :
        /\ ~isProfileMetadata(k, meta[k], LoadedProfile)
        /\ IsSensitiveField(k) }

\* analyse.Analyze: Nil is the error; extractOk is the outcome of the
\* external metadata tool
Analyze(fsys, p, extractOk) ==
    IF ~ValidatePath(fsys, p) THEN Nil
    ELSE IF DetectFile(fsys, p) = NoType THEN Nil
    ELSE IF ~IsSupported(DetectFile(fsys, p).Extension) THEN Nil
    ELSE IF GetHandler(DetectFile(fsys, p).Format) = NoHandler THEN Nil
    ELSE IF ~extractOk THEN Nil
    ELSE [Path |-> p, FileType |-> DetectFile(fsys, p),
          Metadata |-> fsys[p].meta,
          SensitiveFields |-> identifySensitiveFields(fsys[p].meta)]

----------------------------------------------------------------------------
(* internal/wipe/verify.go *)

EmptyVerification ==
    [Success |-> FALSE, FileIntact |-> FALSE, MetadataRemoved |-> FALSE,
     ProfileInjected |-> FALSE, RemainingFields |-> {}, MissingFields |-> {},
     ValidationErrors |-> <<>>]

\* verifyProfileFields: the profile keys with a non-empty value that no
\* metadata key matches with an equal value
verifyProfileFields(meta, profile) ==
    { key \in DOMAIN profile :
        /\ profile[key] /= ""
        /\ ~\E metaKey \in DOMAIN meta :
              KeysMatch(metaKey, key) /\ meta[metaKey] = profile[key] }

\* VerifyFile after a passed integrity check (verify.go lines 53-83)
VerifyMetadata(fsys, p, expectedProfile, extractOk) ==
    LET report == Analyze(fsys, p, extractOk)
        intact == [EmptyVerification EXCEPT !.FileIntact = TRUE]
    IN  IF report = Nil
        THEN [result |-> intact, err |-> "failed to verify metadata",
              analyzed |-> TRUE]
        ELSE LET removed == report.SensitiveFields = {}
                 missing == IF expectedProfile /= Nil
                            THEN verifyProfileFields(report.Metadata, expectedProfile)
                            ELSE {}
                 injected == IF expectedProfile /= Nil THEN missing = {} ELSE TRUE
                 errs1 == IF removed THEN <<>>
                          ELSE <<"Found sensitive fields that should have been removed">>
                 errs2 == IF injected THEN errs1
                          ELSE Append(errs1, "Profile injection incomplete")
             IN  [result |->
                    [Success |-> TRUE /\ removed /\ injected,
                     FileIntact |-> TRUE,
                     MetadataRemoved |-> removed,
                     ProfileInjected |-> injected,
                     RemainingFields |-> report.SensitiveFields,
                     MissingFields |-> missing,
                     ValidationErrors |-> errs2],
                  err |-> NoErr, analyzed |-> TRUE]

\* VerifyFile that goes on to the analysis after a failed integrity check
VerifyFileNoShortCircuit(fsys, p, expectedProfile, extractOk) ==
    IF ~Exists(fsys, p)
    THEN [result |-> EmptyVerification, err |-> "file not found",
          analyzed |-> FALSE]
    ELSE IF DetectFile(fsys, p) = NoType
    THEN [result |-> EmptyVerification, err |-> "file type detection failed",
          analyzed |-> FALSE]
    ELSE IF GetHandler(DetectFile(fsys, p).Format) = NoHandler
    THEN [result |-> EmptyVerification, err |-> "no handler for format",
          analyzed |-> FALSE]
    ELSE VerifyMetadata(fsys, p, expectedProfile, extractOk)

\* VerifyFile(path, expectedProfile)
VerifyFile(fsys, p, expectedProfile, extractOk) ==
    IF ~Exists(fsys, p)
    THEN [result |-> EmptyVerification, err |-> "file not found",
          analyzed |-> FALSE]
    ELSE IF DetectFile(fsys, p) = NoType
    THEN [result |-> EmptyVerification, err |-> "file type detection failed",
          analyzed |-> FALSE]
    ELSE IF GetHandler(DetectFile(fsys, p).Format) = NoHandler
    THEN [result |-> EmptyVerification, err |-> "no handler for format",
          analyzed |-> FALSE]
    ELSE IF ~VerifyIntegrity(GetHandler(DetectFile(fsys, p).Format), fsys[p])
    THEN [result |-> [EmptyVerification EXCEPT
                        !.ValidationErrors = <<"File integrity check failed">>],
          err |-> NoErr, analyzed |-> FALSE]
    ELSE VerifyMetadata(fsys, p, expectedProfile, extractOk)

----------------------------------------------------------------------------
(* internal/wipe/inject.go, internal/formats/image.go *)

Today == "2026-01-01"

\* processDynamicFields: "{{now}}" and "{{random}}" are resolved at injection
processDynamicFields(profile, rnd) ==
    [k \in DOMAIN profile |->
        IF profile[k] = "{{now}}" THEN Today
        ELSE IF profile[k] = "{{random}}" THEN rnd
        ELSE profile[k]]

mapProfileKeyToExifTag(key) ==
    CASE key = "author" -> "Artist"
      [] key = "software" -> "Software"
      [] key = "created" -> "CreateDate"
      [] key = "organization" -> "Copyright"
      [] key = "location" -> "Location"
      [] key = "comment" -> "UserComment"
      [] OTHER -> ""

\* internal/formats/video.go
mapProfileKeyToVideoTag(key) ==
    CASE key = "author" -> "Artist"
      [] key = "software" -> "Software"
      [] key = "created" -> "CreateDate"
      [] key = "organization" -> "Copyright"
      [] key = "location" -> "Location"
      [] key = "comment" -> "Comment"
      [] OTHER -> ""

\* internal/formats/audio.go
mapProfileKeyToAudioTag(key) ==
    CASE key = "author" -> "Artist"
      [] key = "software" -> "EncodedBy"
      [] key = "created" -> "Date"
      [] key = "organization" -> "Publisher"
      [] key = "location" -> "Composer"
      [] key = "comment" -> "Comment"
      [] OTHER -> ""

InjectOutcomes == {"ok", "error"}

\* handler.InjectMetadata: one tool run per mapped key; a failing run returns
\* the error and leaves the file as the earlier runs made it (here: the first
\* run fails)
InjectMetadata(f, profile, outcome) ==
    IF outcome = "error" /\ \E k \in DOMAIN profile : mapProfileKeyToExifTag(k) /= ""
    THEN [file |-> f, err |-> "failed to inject metadata"]
    ELSE LET mapped == { k \in DOMAIN profile : mapProfileKeyToExifTag(k) /= "" }
             tags == { mapProfileKeyToExifTag(k) : k \in mapped }
             valueOf(t) == profile[CHOOSE k \in mapped : mapProfileKeyToExifTag(k) = t]
             meta == [t \in tags \cup DOMAIN f.meta |->
                        IF t \in tags THEN valueOf(t) ELSE f.meta[t]]
         IN  [file |-> [f EXCEPT !.meta = meta], err |-> NoErr]

EmptyInjection ==
    [Success |-> FALSE, FieldsAdded |-> {}, FieldsFailed |-> {}, Profile |-> Nil]

\* InjectProfile(path, customProfile): the result, the error and the directory
\* it leaves
InjectProfile(fsys, p, customProfile, outcome, extractOk, rnd) ==
    LET profile == IF customProfile /= Nil THEN customProfile ELSE LoadedProfile
        result0 == [EmptyInjection EXCEPT !.Profile = profile]
    IN  IF DetectFile(fsys, p) = NoType
        THEN [result |-> result0, err |-> "file type detection failed", fs |-> fsys]
        ELSE IF GetHandler(DetectFile(fsys, p).Format) = NoHandler
        THEN [result |-> result0, err |-> "no handler for format", fs |-> fsys]
        ELSE LET resolved == processDynamicFields(profile, rnd)
                 inj == InjectMetadata(fsys[p], resolved, outcome)
                 fs1 == WriteFile(fsys, p, inj.file)
                 v == VerifyFile(fs1, p, resolved, extractOk)
             IN  IF inj.err /= NoErr
                 THEN [result |-> result0, err |-> "metadata injection failed",
                       fs |-> fs1]
                 ELSE IF v.err /= NoErr
                 THEN [result |-> result0, err |-> "failed to verify injection",
                       fs |-> fs1]
                 ELSE [result |->
                         [Success |-> v.result.ProfileInjected,
                          FieldsAdded |-> DOMAIN resolved \ v.result.MissingFields,
                          FieldsFailed |-> DOMAIN resolved \cap v.result.MissingFields,
                          Profile |-> profile],
                       err |-> NoErr, fs |-> fs1]

----------------------------------------------------------------------------
(* internal/wipe/wipe.go: WipeFile *)

WipeOptions(inject, custom, copy, keep, secure) ==
    [InjectProfile |-> inject, CustomProfile |-> custom, CreateCopy |-> copy,
     KeepBackup |-> keep, SecureDelete |-> secure]

DefaultWipeOptions == WipeOptions(TRUE, Nil, TRUE, TRUE, FALSE)

\* the option sets WipeFile is called with: the default (also the daemon's),
\* and the CLI's --no-inject, custom profile, --in-place, --no-backup and
\* secure-delete variations
WipeOptionsSet ==
    { DefaultWipeOptions,
      WipeOptions(FALSE, Nil, TRUE, TRUE, FALSE),
      WipeOptions(TRUE, CustomProfile1, TRUE, TRUE, FALSE),
      WipeOptions(TRUE, Nil, FALSE, TRUE, FALSE),
      WipeOptions(FALSE, Nil, FALSE, FALSE, FALSE),
      WipeOptions(FALSE, Nil, FALSE, FALSE, TRUE),
      WipeOptions(TRUE, CustomProfile1, FALSE, FALSE, FALSE),
      WipeOptions(TRUE, DynamicProfile, TRUE, TRUE, FALSE),
      WipeOptions(TRUE, AliasDynamicProfile, TRUE, TRUE, FALSE) }

NewWipeResult(p) ==
    [Success |-> FALSE, OriginalPath |-> p, OutputPath |-> <<>>,
     BackupPath |-> <<>>, SensitiveData |-> {}, WipeErrors |-> <<>>,
     Verification |-> Nil, Injection |-> Nil]

IdleCall ==
    [pc |-> "idle", path |-> <<>>, options |-> DefaultWipeOptions,
     result |-> NewWipeResult(<<>>), err |-> NoErr, handler |-> Nil,
     workingPath |-> <<>>, fs0 |-> <<>>, ran |-> {}, wipeFailed |-> FALSE,
     injectErr |-> NoErr, verified |-> Nil]

\* outputPath left at its initial value
OutputPathForInPlace(p, options) == p

\* outputPath: the marker-named copy in copy mode, the original otherwise
OutputPathFor(p, options) ==
    IF options.CreateCopy THEN GenerateOutputPath(p) ELSE p

\* a stage that drops its error and falls through
AfterStageNoAbort(err, next) == next

\* `return result, fmt.Errorf(...)` of stages 1-4 against falling through
AfterStage(err, next) == IF err /= NoErr THEN "done" ELSE next

\* the injection decided by the option alone
ShouldInjectAlways(options, result) ==
    options.InjectProfile

\* options.InjectProfile && len(result.WipeErrors) == 0
ShouldInject(options, result) ==
    options.InjectProfile /\ Len(result.WipeErrors) = 0

\* the clean up decided without looking at WipeErrors
ShouldCleanupDespiteErrors(options, result) ==
    /\ ~options.CreateCopy
    /\ ~options.KeepBackup
    /\ result.BackupPath /= <<>>

\* the condition of the option-based clean up
ShouldCleanup(options, result) ==
    /\ ~options.CreateCopy
    /\ ~options.KeepBackup
    /\ result.BackupPath /= <<>>
    /\ Len(result.WipeErrors) = 0

\* result.Success without the verification conjunct
ComputeSuccessNoVerification(result) == Len(result.WipeErrors) = 0

\* result.Success
ComputeSuccess(result) ==
    /\ Len(result.WipeErrors) = 0
    /\ (result.Verification = Nil \/ result.Verification.Success)

WipeOutcomes == {"removed", "left", "error", "corrupt"}

\* handler.WipeMetadata on the working file: the external tool strips the
\* metadata, reports success without stripping, fails, or damages the file
WipeMetadata(f, outcome) ==
    CASE outcome = "removed" -> [file |-> [f EXCEPT !.meta = NoMeta], err |-> NoErr]
      [] outcome = "left"    -> [file |-> f, err |-> NoErr]
      [] outcome = "corrupt" ->
             [file |-> [f EXCEPT !.meta = NoMeta, !.intact = FALSE], err |-> NoErr]
      [] OTHER -> [file |-> f, err |-> "failed to wipe metadata"]

\* WipeFile is entered
Wipe_Call(p, options) ==
    /\ wf.pc \in {"idle", "done"}
    /\ wf' = [IdleCall EXCEPT !.pc = "validate", !.path = p,
                              !.options = options,
                              !.result = NewWipeResult(p), !.fs0 = fs]
    /\ calls < MaxCalls
    /\ calls' = calls + 1
    /\ vf' = Nil
    /\ copies' = IF /\ options.CreateCopy
                    /\ Len(copies) = 1
                    /\ copies[1].orig = p
                 THEN copies ELSE <<>>
    /\ UNCHANGED fs
    /\ UNCHANGED <<wvars, dvars, lvars, hvars>>

\* stage 1: util.ValidatePath
Wipe_Validate ==
    /\ wf.pc = "validate"
    /\ LET err == IF ValidatePath(fs, wf.path) THEN NoErr ELSE "invalid input file"
       IN  wf' = [wf EXCEPT !.pc = AfterStage(err, "analyze"), !.err = err,
                            !.ran = @ \cup {"validate"}]
    /\ UNCHANGED <<fs, calls, copies, vf>>
    /\ UNCHANGED <<wvars, dvars, lvars, hvars>>

\* stage 2: analyse.Analyze, result.SensitiveData
Wipe_Analyze(extractOk) ==
    /\ wf.pc = "analyze"
    /\ LET report == Analyze(fs, wf.path, extractOk)
           err == IF report = Nil THEN "failed to analyze file" ELSE NoErr
       IN  wf' = [wf EXCEPT
                    !.pc = AfterStage(err, "handler"), !.err = err,
                    !.ran = @ \cup {"analyze"},
                    !.handler = IF report = Nil THEN NoHandler ELSE report.FileType.Format,
                    !.result.SensitiveData =
                        IF report = Nil THEN @ ELSE report.SensitiveFields]
    /\ UNCHANGED <<fs, calls, copies, vf>>
    /\ UNCHANGED <<wvars, dvars, lvars, hvars>>

\* stage 3: formats.GetHandler
Wipe_GetHandler ==
    /\ wf.pc = "handler"
    /\ LET h == GetHandler(wf.handler)
           err == IF h = NoHandler THEN "no handler for format" ELSE NoErr
       IN  wf' = [wf EXCEPT !.pc = AfterStage(err, "stage"), !.err = err,
                            !.handler = h, !.ran = @ \cup {"handler"}]
    /\ UNCHANGED <<fs, calls, copies, vf>>
    /\ UNCHANGED <<wvars, dvars, lvars, hvars>>

\* stage 4: the copy (CreateCopy) or the backup
Wipe_Stage(outcome) ==
    /\ wf.pc = "stage"
    /\ IF wf.options.CreateCopy
       THEN LET out == OutputPathFor(wf.path, wf.options)
                c == SafeCopy(fs, wf.path, out, outcome)
                err == IF c.err /= NoErr THEN "failed to create output file" ELSE NoErr
            IN  /\ fs' = c.fs
                /\ wf' = [wf EXCEPT !.pc = AfterStage(err, "wipe"), !.err = err,
                                    !.ran = @ \cup {"stage"},
                                    !.result.OutputPath = out,
                                    !.workingPath = out]
       ELSE LET b == CreateBackup(fs, wf.path, outcome)
                err == IF b.err /= NoErr THEN "failed to create backup" ELSE NoErr
            IN  /\ fs' = b.fs
                /\ wf' = [wf EXCEPT !.pc = AfterStage(err, "wipe"), !.err = err,
                                    !.ran = @ \cup {"stage"},
                                    !.result.BackupPath =
                                        IF b.err /= NoErr THEN @ ELSE b.backupPath,
                                    !.workingPath =
                                        OutputPathFor(wf.path, wf.options)]
    /\ UNCHANGED <<calls, copies, vf>>
    /\ UNCHANGED <<wvars, dvars, lvars, hvars>>

\* stage 5 returning the handler's error as stages 1-4 do
Wipe_WipeAborting(outcome) ==
    /\ wf.pc = "wipe"
    /\ LET w == WipeMetadata(fs[wf.workingPath], outcome)
       IN  /\ fs' = WriteFile(fs, wf.workingPath, w.file)
           /\ wf' = [wf EXCEPT
                       !.pc = AfterStage(w.err, "inject"), !.err = w.err,
                       !.ran = @ \cup {"wipe"},
                       !.wipeFailed = (w.err /= NoErr)]
    /\ UNCHANGED <<calls, copies, vf>>
    /\ UNCHANGED <<wvars, dvars, lvars, hvars>>

\* stage 5: handler.WipeMetadata(workingPath), errors are recorded
Wipe_Wipe(outcome) ==
    /\ wf.pc = "wipe"
    /\ LET w == WipeMetadata(fs[wf.workingPath], outcome)
       IN  /\ fs' = WriteFile(fs, wf.workingPath, w.file)
           /\ wf' = [wf EXCEPT
                       !.pc = "inject", !.ran = @ \cup {"wipe"},
                       !.wipeFailed = (w.err /= NoErr),
                       !.result.WipeErrors =
                           IF w.err /= NoErr
                           THEN Append(@, "[X] Metadata wipe failed")
                           ELSE @]
    /\ UNCHANGED <<calls, copies, vf>>
    /\ UNCHANGED <<wvars, dvars, lvars, hvars>>

\* stage 6: InjectProfile(workingPath, options.CustomProfile)
Wipe_Inject(outcome, extractOk, rnd) ==
    /\ wf.pc = "inject"
    /\ IF ShouldInject(wf.options, wf.result)
       THEN LET i == InjectProfile(fs, wf.workingPath, wf.options.CustomProfile,
                                   outcome, extractOk, rnd)
            IN  /\ fs' = i.fs
                /\ wf' = [wf EXCEPT
                            !.pc = "verify", !.ran = @ \cup {"inject"},
                            !.injectErr = i.err,
                            !.result.Injection = i.result,
                            !.result.WipeErrors =
                                IF i.err /= NoErr
                                THEN Append(@, "[X] Profile injection failed")
                                ELSE @]
       ELSE /\ wf' = [wf EXCEPT !.pc = "verify"]
            /\ fs' = fs
    /\ UNCHANGED <<calls, copies, vf>>
    /\ UNCHANGED <<wvars, dvars, lvars, hvars>>

\* stage 7: VerifyFile(workingPath, options.CustomProfile)
Wipe_Verify(extractOk) ==
    /\ wf.pc = "verify"
    /\ LET v == VerifyFile(fs, wf.workingPath, wf.options.CustomProfile, extractOk)
       IN  wf' = [wf EXCEPT
                    !.pc = "cleanup", !.ran = @ \cup {"verify"},
                    !.verified = [path |-> wf.workingPath,
                                  profile |-> wf.options.CustomProfile, out |-> v],
                    !.result.Verification = v.result,
                    !.result.WipeErrors =
                        IF v.err /= NoErr
                        THEN Append(@, "[X] Verification failed")
                        ELSE @]
    /\ UNCHANGED <<fs, calls, copies, vf>>
    /\ UNCHANGED <<wvars, dvars, lvars, hvars>>

\* util.SecureOverwriteFile / util.RemoveFile on the backup; a failed secure
\* overwrite leaves the overwritten file behind
DeleteBackup(fsys, p, secure, ok) ==
    IF ~Exists(fsys, p) THEN fsys
    ELSE IF ok THEN RemoveFile(fsys, p)
    ELSE IF secure THEN WriteFile(fsys, p, PartialFile)
    ELSE fsys

\* stages 8 and 9: clean up, result.Success, return result, nil
Wipe_Finish(deleteOk) ==
    /\ wf.pc = "cleanup"
    /\ LET clean == ShouldCleanup(wf.options, wf.result)
           result1 == IF clean THEN [wf.result EXCEPT !.BackupPath = <<>>]
                      ELSE wf.result
           result2 == [result1 EXCEPT !.Success = ComputeSuccess(result1)]
       IN  /\ fs' = IF clean
                    THEN DeleteBackup(fs, wf.result.BackupPath,
                                      wf.options.SecureDelete, deleteOk)
                    ELSE fs
           /\ wf' = [wf EXCEPT !.pc = "done", !.result = result2,
                               !.ran = IF clean THEN @ \cup {"cleanup"} ELSE @]
           /\ copies' =
                IF wf.options.CreateCopy
                THEN Append(copies,
                            [orig |-> wf.path, out |-> result2.OutputPath,
                             before |-> wf.fs0[wf.path],
                             content |-> fs[result2.OutputPath]])
                ELSE copies
    /\ UNCHANGED <<calls, vf>>
    /\ UNCHANGED <<wvars, dvars, lvars, hvars>>

\* a direct call of VerifyFile between two WipeFile calls
Verify_Call(p, profile, extractOk) ==
    /\ wf.pc \in {"idle", "done"}
    /\ vf' = [path |-> p, profile |-> profile,
              out |-> VerifyFile(fs, p, profile, extractOk)]
    /\ calls < MaxCalls
    /\ calls' = calls + 1
    /\ UNCHANGED <<fs, wf, copies>>
    /\ UNCHANGED <<wvars, dvars, lvars, hvars>>

VerifyPaths == {Orig, GenerateOutputPath(Orig), Unknown, Missing}

VerifyProfiles == {Nil, CustomProfile1, CaseProfile}

RandomIds == {"id-1"}

PInit ==
    /\ fs \in InitialFileSystems
    /\ wf = IdleCall
    /\ calls = 0
    /\ copies = <<>>
    /\ vf = Nil

NextWipe ==
    \/ \E p \in CallPaths, o \in WipeOptionsSet : Wipe_Call(p, o)
    \/ Wipe_Validate
    \/ \E x \in BOOLEAN : Wipe_Analyze(x)
    \/ Wipe_GetHandler
    \/ \E c \in CopyOutcomes : Wipe_Stage(c)
    \/ \E w \in WipeOutcomes : Wipe_Wipe(w)
    \/ \E i \in InjectOutcomes, x \in BOOLEAN, r \in RandomIds : Wipe_Inject(i, x, r)
    \/ \E x \in BOOLEAN : Wipe_Verify(x)
    \/ \E d \in BOOLEAN : Wipe_Finish(d)
    \/ \E p \in VerifyPaths, e \in VerifyProfiles, x \in BOOLEAN : Verify_Call(p, e, x)

----------------------------------------------------------------------------
(***************************************************************************)
(* The Daemon and the daemon command of the CLI                            *)
(***************************************************************************)

\* the paths a configuration can list, and what the file system holds there
DirNames == {"in", "out", "note", "gone"}

DirKind(d) == CASE d = "in"   -> "dir"
                [] d = "out"  -> "dir"
                [] d = "note" -> "file"
                [] OTHER      -> "missing"

\* os.Stat succeeds and info.IsDir()
IsValidDir(d) == DirKind(d) = "dir"

SeqsUpTo(S, n) == UNION { [1..k -> S] : k \in 0..n }

WatchPathLists == SeqsUpTo(DirNames, MaxDirs)

\* NewWatcher that keeps every listed path
NewWatcherKeepAll(dirs, subOk) ==
    IF ~subOk
    THEN [err |-> "failed to create file watcher", dirs |-> <<>>]
    ELSE IF Len(dirs) = 0
         THEN [err |-> "no valid directories to watch", dirs |-> <<>>]
         ELSE [err |-> NoErr, dirs |-> dirs]

\* NewWatcher: subOk says whether fsnotify.NewWatcher succeeds
NewWatcher(dirs, subOk) ==
    IF ~subOk
    THEN [err |-> "failed to create file watcher", dirs |-> <<>>]
    ELSE LET validDirs == SelectSeq(dirs, IsValidDir)
         IN  IF Len(validDirs) = 0
             THEN [err |-> "no valid directories to watch", dirs |-> <<>>]
             ELSE [err |-> NoErr, dirs |-> validDirs]

\* Watcher.Start as the Daemon sees it: an error on a running watcher
WatcherStartErr(w) == IF w.running THEN "watcher already running" ELSE NoErr

\* Logger.Log writes the line only while the logger is initialized
Logged(init, msgs) == IF init THEN msgs ELSE {}

DInit ==
    /\ dConfig \in WatchPathLists
    /\ dRunning = FALSE
    /\ dWatcher = 0
    /\ watchers = <<>>
    /\ loggerInit = TRUE
    /\ dRet = [op |-> "NewDaemon", in |-> <<>>, err |-> NoErr]
    /\ dLogged = {}
    /\ dCalls = 0
    /\ lastNew = Nil
    /\ pidFile = FALSE
    /\ daemonProcs = 0
    /\ cliOut = ""

\* Daemon.Start without the check of d.running
Daemon_StartUnguarded(subOk) ==
    /\ dCalls < MaxDaemonCalls
    /\ dCalls' = dCalls + 1
    /\ IF FALSE
       THEN /\ dRet' = [op |-> "Start", in |-> <<subOk>>, err |-> "daemon already running"]
            /\ dLogged' = {}
            /\ UNCHANGED <<dRunning, dWatcher, watchers, lastNew>>
       ELSE LET nw == NewWatcher(dConfig, subOk)
                w  == [dirs |-> nw.dirs, running |-> FALSE]
            IN  /\ lastNew' = [dirs |-> dConfig, subOk |-> subOk, out |-> nw]
                /\ IF nw.err # NoErr
                   THEN /\ dRet' = [op |-> "Start", in |-> <<subOk>>, err |-> "failed to create watcher"]
                        /\ dLogged' = Logged(loggerInit, {"Starting daemon",
                                                         "Failed to create watcher"})
                        /\ UNCHANGED <<dRunning, dWatcher, watchers>>
                   ELSE IF WatcherStartErr(w) # NoErr
                   THEN /\ dRet' = [op |-> "Start", in |-> <<subOk>>, err |-> "failed to start watcher"]
                        /\ dLogged' = Logged(loggerInit, {"Starting daemon",
                                                         "Failed to start watcher"})
                        /\ UNCHANGED <<dRunning, dWatcher, watchers>>
                   ELSE /\ watchers' = Append(watchers, [w EXCEPT !.running = TRUE])
                        /\ dWatcher' = Len(watchers) + 1
                        /\ dRunning' = TRUE
                        /\ dRet' = [op |-> "Start", in |-> <<subOk>>, err |-> NoErr]
                        /\ dLogged' = Logged(loggerInit, {"Starting daemon",
                                                         "Daemon started successfully"})
    /\ UNCHANGED <<dConfig, loggerInit, pidFile, daemonProcs, cliOut>>
    /\ UNCHANGED <<wvars, pvars, lvars, hvars>>

\* Daemon.Start
Daemon_Start(subOk) ==
    /\ dCalls < MaxDaemonCalls
    /\ dCalls' = dCalls + 1
    /\ IF dRunning
       THEN /\ dRet' = [op |-> "Start", in |-> <<subOk>>, err |-> "daemon already running"]
            /\ dLogged' = {}
            /\ UNCHANGED <<dRunning, dWatcher, watchers, lastNew>>
       ELSE LET nw == NewWatcher(dConfig, subOk)
                w  == [dirs |-> nw.dirs, running |-> FALSE]
            IN  /\ lastNew' = [dirs |-> dConfig, subOk |-> subOk, out |-> nw]
                /\ IF nw.err # NoErr
                   THEN /\ dRet' = [op |-> "Start", in |-> <<subOk>>, err |-> "failed to create watcher"]
                        /\ dLogged' = Logged(loggerInit, {"Starting daemon",
                                                         "Failed to create watcher"})
                        /\ UNCHANGED <<dRunning, dWatcher, watchers>>
                   ELSE IF WatcherStartErr(w) # NoErr
                   THEN /\ dRet' = [op |-> "Start", in |-> <<subOk>>, err |-> "failed to start watcher"]
                        /\ dLogged' = Logged(loggerInit, {"Starting daemon",
                                                         "Failed to start watcher"})
                        /\ UNCHANGED <<dRunning, dWatcher, watchers>>
                   ELSE /\ watchers' = Append(watchers, [w EXCEPT !.running = TRUE])
                        /\ dWatcher' = Len(watchers) + 1
                        /\ dRunning' = TRUE
                        /\ dRet' = [op |-> "Start", in |-> <<subOk>>, err |-> NoErr]
                        /\ dLogged' = Logged(loggerInit, {"Starting daemon",
                                                         "Daemon started successfully"})
    /\ UNCHANGED <<dConfig, loggerInit, pidFile, daemonProcs, cliOut>>
    /\ UNCHANGED <<wvars, pvars, lvars, hvars>>

\* Daemon.Stop: stopOk says whether closing the subscription succeeds,
\* closeOk whether closing the log file succeeds
Daemon_Stop(stopOk, closeOk) ==
    /\ dCalls < MaxDaemonCalls
    /\ dCalls' = dCalls + 1
    /\ IF ~dRunning
       THEN /\ dRet' = [op |-> "Stop", in |-> <<stopOk, closeOk>>, err |-> NoErr]
            /\ dLogged' = {}
            /\ UNCHANGED <<dRunning, watchers, loggerInit>>
       ELSE LET stopErr == dWatcher # 0 /\ watchers[dWatcher].running /\ ~stopOk
                closeErr == loggerInit /\ ~closeOk
            IN  /\ watchers' = IF dWatcher # 0
                               THEN [watchers EXCEPT ![dWatcher].running = FALSE]
                               ELSE watchers
                /\ dLogged' = Logged(loggerInit,
                      {"Stopping daemon"} \cup
                      (IF stopErr THEN {"Error stopping watcher"} ELSE {}))
                /\ loggerInit' = FALSE
                /\ IF closeErr
                   THEN /\ dRet' = [op |-> "Stop", in |-> <<stopOk, closeOk>>, err |-> "error closing logger"]
                        /\ UNCHANGED dRunning
                   ELSE /\ dRet' = [op |-> "Stop", in |-> <<stopOk, closeOk>>, err |-> NoErr]
                        /\ dRunning' = FALSE
    /\ UNCHANGED <<dConfig, dWatcher, lastNew, pidFile, daemonProcs, cliOut>>
    /\ UNCHANGED <<wvars, pvars, lvars, hvars>>

\* caligra daemon on: startOk says whether NewDaemon and Daemon.Start succeed
\* in the new process, pidOk whether the PID file can be written
Cli_On(startOk, pidOk) ==
    /\ IF pidFile
       THEN /\ cliOut' = "Daemon is already running"
            /\ UNCHANGED <<pidFile, daemonProcs>>
       ELSE IF ~startOk
       THEN /\ cliOut' = "Failed to start daemon"
            /\ UNCHANGED <<pidFile, daemonProcs>>
       ELSE /\ daemonProcs < MaxProcs
            /\ pidFile' = pidOk
            /\ daemonProcs' = daemonProcs + 1
            /\ cliOut' = "Daemon started"
    /\ UNCHANGED <<dConfig, dRunning, dWatcher, watchers, loggerInit, dRet,
                   dLogged, dCalls, lastNew>>
    /\ UNCHANGED <<wvars, pvars, lvars, hvars>>

\* caligra daemon off: the PID file is removed, no process is signalled
Cli_Off(removeOk) ==
    /\ IF ~pidFile
       THEN /\ cliOut' = "Daemon is not running"
            /\ UNCHANGED pidFile
       ELSE IF ~removeOk
       THEN /\ cliOut' = "Failed to remove PID file"
            /\ UNCHANGED pidFile
       ELSE /\ pidFile' = FALSE
            /\ cliOut' = "Daemon stopped"
    /\ UNCHANGED <<dConfig, dRunning, dWatcher, watchers, loggerInit, dRet,
                   dLogged, dCalls, lastNew, daemonProcs>>
    /\ UNCHANGED <<wvars, pvars, lvars, hvars>>

\* caligra daemon status
Cli_Status ==
    /\ cliOut' = IF pidFile THEN "Daemon is running" ELSE "Daemon is not running"
    /\ UNCHANGED <<dConfig, dRunning, dWatcher, watchers, loggerInit, dRet,
                   dLogged, dCalls, lastNew, pidFile, daemonProcs>>
    /\ UNCHANGED <<wvars, pvars, lvars, hvars>>

NextDaemon ==
    \/ \E s \in BOOLEAN : Daemon_Start(s)
    \/ \E s \in BOOLEAN, c \in BOOLEAN : Daemon_Stop(s, c)
    \/ \E s \in BOOLEAN, w \in BOOLEAN : Cli_On(s, w)
    \/ \E r \in BOOLEAN : Cli_Off(r)
    \/ Cli_Status

----------------------------------------------------------------------------
(* Logger: Log and Close, field by field. The Logger has no lock: a Log call
   of a handler unit runs concurrently with the Close call of Daemon.Stop. *)

LevelDebug == 0
LevelInfo == 1
LevelError == 3

\* the Logger as NewDaemon creates it
LInit ==
    /\ lg = [initialized |-> TRUE, logFile |-> "file", level |-> LevelInfo,
             open |-> TRUE, lines |-> 0]
    /\ logCalls = <<>>
    /\ closeCalls = <<>>

\* a goroutine enters Log
Log_Call(level) ==
    /\ Len(logCalls) < MaxLogCalls
    /\ logCalls' = Append(logCalls,
          [pc |-> "entered", level |-> level, file |-> "unread",
           ret |-> "pending", wrote |-> FALSE])
    /\ UNCHANGED <<lg, closeCalls>>
    /\ UNCHANGED <<wvars, pvars, dvars, hvars>>

\* if !l.initialized: error; if level < l.level: return nil
Log_Check(c) ==
    /\ c \in DOMAIN logCalls
    /\ logCalls[c].pc = "entered"
    /\ logCalls' = [logCalls EXCEPT ![c] =
          IF ~lg.initialized
          THEN [@ EXCEPT !.pc = "done", !.ret = "logger not initialized"]
          ELSE IF @.level < lg.level
          THEN [@ EXCEPT !.pc = "done", !.ret = NoErr]
          ELSE [@ EXCEPT !.pc = "format"]]
    /\ UNCHANGED <<lg, closeCalls>>
    /\ UNCHANGED <<wvars, pvars, dvars, hvars>>

\* the read of l.logFile for the call of WriteString
Log_Load(c) ==
    /\ c \in DOMAIN logCalls
    /\ logCalls[c].pc = "format"
    /\ logCalls' = [logCalls EXCEPT ![c].pc = "loaded",
                                    ![c].file = lg.logFile]
    /\ UNCHANGED <<lg, closeCalls>>
    /\ UNCHANGED <<wvars, pvars, dvars, hvars>>

\* WriteString that appends to a file that has been closed
Log_WriteUnchecked(c, writeOk) ==
    /\ c \in DOMAIN logCalls
    /\ logCalls[c].pc = "loaded"
    /\ IF logCalls[c].file = "nil"
       THEN /\ logCalls' = [logCalls EXCEPT ![c].pc = "done",
                                            ![c].ret = "invalid argument"]
            /\ UNCHANGED lg
       ELSE IF ~writeOk
       THEN /\ logCalls' = [logCalls EXCEPT ![c].pc = "done",
                                            ![c].ret = "write failed"]
            /\ UNCHANGED lg
       ELSE /\ logCalls' = [logCalls EXCEPT ![c].pc = "done",
                                            ![c].ret = NoErr,
                                            ![c].wrote = TRUE]
            /\ lg' = [lg EXCEPT !.lines = @ + 1]
    /\ UNCHANGED closeCalls
    /\ UNCHANGED <<wvars, pvars, dvars, hvars>>

\* l.logFile.WriteString(logLine): os.File returns ErrInvalid on a nil
\* receiver and ErrClosed on a closed file, without writing
Log_Write(c, writeOk) ==
    /\ c \in DOMAIN logCalls
    /\ logCalls[c].pc = "loaded"
    /\ IF logCalls[c].file = "nil"
       THEN /\ logCalls' = [logCalls EXCEPT ![c].pc = "done",
                                            ![c].ret = "invalid argument"]
            /\ UNCHANGED lg
       ELSE IF ~lg.open
       THEN /\ logCalls' = [logCalls EXCEPT ![c].pc = "done",
                                            ![c].ret = "file already closed"]
            /\ UNCHANGED lg
       ELSE IF ~writeOk
       THEN /\ logCalls' = [logCalls EXCEPT ![c].pc = "done",
                                            ![c].ret = "write failed"]
            /\ UNCHANGED lg
       ELSE /\ logCalls' = [logCalls EXCEPT ![c].pc = "done",
                                            ![c].ret = NoErr,
                                            ![c].wrote = TRUE]
            /\ lg' = [lg EXCEPT !.lines = @ + 1]
    /\ UNCHANGED closeCalls
    /\ UNCHANGED <<wvars, pvars, dvars, hvars>>

\* the daemon's goroutine enters Close (its calls follow one another)
Close_Call ==
    /\ Len(closeCalls) < MaxCloses
    /\ \A k \in DOMAIN closeCalls : closeCalls[k].pc = "done"
    /\ closeCalls' = Append(closeCalls,
          [pc |-> "entered", ret |-> "pending", todo |-> {}])
    /\ UNCHANGED <<lg, logCalls>>
    /\ UNCHANGED <<wvars, pvars, dvars, hvars>>

\* if !l.initialized || l.logFile == nil: return nil
Close_Check(k) ==
    /\ k \in DOMAIN closeCalls
    /\ closeCalls[k].pc = "entered"
    /\ closeCalls' = [closeCalls EXCEPT ![k] =
          IF ~lg.initialized \/ lg.logFile = "nil"
          THEN [@ EXCEPT !.pc = "done", !.ret = NoErr]
          ELSE [@ EXCEPT !.pc = "closing"]]
    /\ UNCHANGED <<lg, logCalls>>
    /\ UNCHANGED <<wvars, pvars, dvars, hvars>>

\* err := l.logFile.Close()
Close_File(k, closeOk) ==
    /\ k \in DOMAIN closeCalls
    /\ closeCalls[k].pc = "closing"
    /\ lg' = [lg EXCEPT !.open = FALSE]
    /\ closeCalls' = [closeCalls EXCEPT
          ![k].pc = "clearing",
          ![k].ret = IF closeOk THEN NoErr ELSE "close failed",
          ![k].todo = {"initialized", "logFile"}]
    /\ UNCHANGED logCalls
    /\ UNCHANGED <<wvars, pvars, dvars, hvars>>

\* l.initialized = false; l.logFile = nil; return err. The two writes are
\* not synchronised with the reads of Log, which can see them in either
\* order
Close_Clear(k, field) ==
    /\ k \in DOMAIN closeCalls
    /\ closeCalls[k].pc = "clearing"
    /\ field \in closeCalls[k].todo
    /\ lg' = IF field = "initialized"
             THEN [lg EXCEPT !.initialized = FALSE]
             ELSE [lg EXCEPT !.logFile = "nil"]
    /\ closeCalls' = [closeCalls EXCEPT
          ![k].todo = @ \ {field},
          ![k].pc = IF closeCalls[k].todo = {field} THEN "done" ELSE @]
    /\ UNCHANGED logCalls
    /\ UNCHANGED <<wvars, pvars, dvars, hvars>>

NextLogger ==
    \/ \E level \in {LevelDebug, LevelInfo, LevelError} : Log_Call(level)
    \/ \E c \in 1..MaxLogCalls : Log_Check(c)
    \/ \E c \in 1..MaxLogCalls : Log_Load(c)
    \/ \E c \in 1..MaxLogCalls, writeOk \in BOOLEAN : Log_Write(c, writeOk)
    \/ Close_Call
    \/ \E k \in 1..MaxCloses : Close_Check(k)
    \/ \E k \in 1..MaxCloses, closeOk \in BOOLEAN : Close_File(k, closeOk)
    \/ \E k \in 1..MaxCloses, field \in {"initialized", "logFile"} :
          Close_Clear(k, field)

----------------------------------------------------------------------------
(***************************************************************************)
(* The Daemon's file handler over the pipeline, fed by the create/write    *)
(* events of the watched directory.  The directory is the one of the       *)
(* pipeline (fs); the units run one after the other.                       *)
(***************************************************************************)

\* the handler's options with CreateCopy off
HandlerWipeOptionsInPlace == WipeOptions(TRUE, Nil, FALSE, TRUE, FALSE)

\* wipeOptions of the handler (part_002 194-200)
HandlerWipeOptions == WipeOptions(TRUE, Nil, TRUE, TRUE, FALSE)

IdleHandler ==
    [pc |-> "idle", path |-> <<>>, err |-> NoErr, analysed |-> FALSE,
     sensitive |-> {}, wiped |-> FALSE, fs0 |-> <<>>]

HInit ==
    /\ hd = IdleHandler
    /\ hEvents = {}
    /\ hUnits = {}
    /\ hProcessed = <<>>
    /\ hLog = <<>>
    /\ hGiven = 0

\* the files a call wrote: created, truncated or rewritten
Written(before, after) ==
    { q \in DOMAIN after : q \notin DOMAIN before \/ after[q] # before[q] }

\* somebody else writes or moves the file p into the watched directory: the
\* subscription queues a create/write event for it
Feed_NewFile(p) ==
    /\ hGiven < MaxGiven
    /\ hGiven' = hGiven + 1
    /\ hEvents' = hEvents \cup {p}
    /\ UNCHANGED <<hd, hUnits, hProcessed, hLog>>
    /\ UNCHANGED <<wvars, pvars, dvars, lvars>>

\* processEvents consumes the event for p under the Daemon's options; age is
\* what time.Since(info.ModTime()) yields when the loop gets to the stat (the
\* code sets no bound on the time between a write and the stat of its event)
Feed_Event(p, age) ==
    /\ p \in hEvents
    /\ age = StatFailed <=> ~Exists(fs, p)
    /\ hEvents' = hEvents \ {p}
    /\ hUnits' = IF shouldProcessFile(DaemonOptions, hProcessed, now, p, age)
                 THEN hUnits \cup {p}
                 ELSE hUnits
    /\ UNCHANGED <<hd, hProcessed, hLog, hGiven>>
    /\ UNCHANGED <<wvars, pvars, dvars, lvars>>

\* the unit for p calls the handler: analysis, the skip of a file without
\* sensitive fields, or the entry into WipeFile
Handler_Call(p, extractOk) ==
    /\ p \in hUnits
    /\ hd.pc \in {"idle", "done"}
    /\ wf.pc \in {"idle", "done"}
    /\ Len(hLog) < MaxHandlerCalls
    /\ hUnits' = hUnits \ {p}
    /\ hLog' = Append(hLog, p)
    /\ LET report == Analyze(fs, p, extractOk)
           entered == [IdleHandler EXCEPT !.path = p, !.fs0 = fs]
       IN  IF report = Nil
           THEN /\ hd' = [entered EXCEPT !.pc = "done",
                                         !.err = "analysis failed"]
                /\ hProcessed' = markProcessed(hProcessed, now, p)
                /\ UNCHANGED <<wf, calls, copies, vf>>
           ELSE IF report.SensitiveFields = {}
           THEN /\ hd' = [entered EXCEPT !.pc = "done", !.analysed = TRUE]
                /\ hProcessed' = markProcessed(hProcessed, now, p)
                /\ UNCHANGED <<wf, calls, copies, vf>>
           ELSE /\ calls < MaxCalls
                /\ calls' = calls + 1
                /\ hd' = [entered EXCEPT !.pc = "wiping", !.analysed = TRUE,
                                         !.sensitive = report.SensitiveFields,
                                         !.wiped = TRUE]
                /\ wf' = [IdleCall EXCEPT !.pc = "validate", !.path = p,
                                          !.options = HandlerWipeOptions,
                                          !.result = NewWipeResult(p),
                                          !.fs0 = fs]
                /\ vf' = Nil
                /\ copies' = <<>>
                /\ UNCHANGED hProcessed
    /\ UNCHANGED <<fs, hEvents, hGiven>>
    /\ UNCHANGED <<wvars, dvars, lvars>>

\* WipeFile has returned: the handler returns its error, the unit records
\* the path; the subscription has queued an event for every file written
Handler_Return ==
    /\ hd.pc = "wiping"
    /\ wf.pc = "done"
    /\ hd' = [hd EXCEPT !.pc = "done", !.err = wf.err]
    /\ hProcessed' = markProcessed(hProcessed, now, hd.path)
    /\ hEvents' = hEvents \cup Written(hd.fs0, fs)
    /\ UNCHANGED <<hUnits, hLog, hGiven>>
    /\ UNCHANGED <<wvars, pvars, dvars, lvars>>

\* the files of the directory and the outputs of up to MaxCalls WipeFile calls
HandlerPaths ==
    CallPaths \cup
    {GenerateOutputPath(Orig), GenerateOutputPath(GenerateOutputPath(Orig))}

NextHandler ==
    \/ \E p \in CallPaths : Feed_NewFile(p)
    \/ \E p \in HandlerPaths, age \in FileAges \cup {StatFailed} : Feed_Event(p, age)
    \/ \E p \in HandlerPaths, x \in BOOLEAN : Handler_Call(p, x)
    \/ Handler_Return
    \/ Wipe_Validate
    \/ \E x \in BOOLEAN : Wipe_Analyze(x)
    \/ Wipe_GetHandler
    \/ \E c \in CopyOutcomes : Wipe_Stage(c)
    \/ \E w \in WipeOutcomes : Wipe_Wipe(w)
    \/ \E i \in InjectOutcomes, x \in BOOLEAN, r \in RandomIds : Wipe_Inject(i, x, r)
    \/ \E x \in BOOLEAN : Wipe_Verify(x)
    \/ \E d \in BOOLEAN : Wipe_Finish(d)

----------------------------------------------------------------------------
(* Specifications *)

\* a watched directory without subdirectories, on a system whose calls
\* succeed
Quiet == tree = NoTree /\ faulty = FALSE /\ traced = FALSE

\* the Watcher as the Daemon drives it (started once); the pipeline is idle
Init ==
    /\ WInit /\ startsAllowed = 1 /\ timeSteps # HourSteps
    /\ wOptions \in WatchOptionsSet /\ Quiet
    /\ PInit /\ fs = BaseFs
    /\ DInit /\ LInit /\ HInit /\ dConfig = <<"in">>

Spec == Init /\ [][Next]_vars

\* the pipeline; the Watcher is not started
InitWipe == PInit /\ WInit /\ wOptions = OpenOptions /\ Quiet
                  /\ timeSteps = FineSteps /\ startsAllowed = 1
                  /\ DInit /\ LInit /\ HInit /\ dConfig = <<"in">>

SpecWipe == InitWipe /\ [][NextWipe]_vars

\* the life cycle of a Watcher that is started, stopped and started again, in
\* daemon mode, with a clock that advances by hours
InitLife ==
    /\ WInit /\ PInit /\ fs = BaseFs
    /\ DInit /\ LInit /\ HInit /\ dConfig = <<"in">>
    /\ startsAllowed = MaxStarts
    /\ wOptions = DaemonOptions /\ Quiet
    /\ timeSteps = HourSteps

SpecLife == InitLife /\ [][Next]_vars

\* The scheduler runs every goroutine that can take a step, a handler that is
\* entered returns, and the clock advances.
Fairness ==
    /\ \A i \in 1..MaxStarts : WF_vars(EventLoopExit(i))
    /\ \A i \in 1..MaxStarts : WF_vars(CleanupTick(i))
    /\ \A i \in 1..MaxStarts : WF_vars(CleanupSweep(i))
    /\ \A i \in 1..MaxStarts : WF_vars(CleanupUnlock(i))
    /\ \A i \in 1..MaxStarts : WF_vars(CleanupExit(i))
    /\ WF_vars(Start_End)
    /\ WF_vars(\E u \in units : UnitWake(u))
    /\ WF_vars(\E u \in units, ok \in BOOLEAN : UnitFinish(u, ok))
    /\ WF_vars(\E d \in timeSteps : AdvanceTime(d))

\* a watcher that is started once and receives events for allowed files, or
\* one that is started, stopped and started again and receives none
InitLifeFair ==
    /\ WInit /\ PInit /\ fs = BaseFs
    /\ DInit /\ LInit /\ HInit /\ dConfig = <<"in">>
    /\ timeSteps = HourSteps /\ Quiet
    /\ \/ startsAllowed = 1 /\ wOptions = DaemonOptions
       \/ startsAllowed = MaxStarts /\ wOptions = NoMatchOptions

SpecLifeFair == InitLifeFair /\ [][Next]_vars /\ Fairness

\* a Daemon under Start and Stop calls, and the daemon command; the Watcher of
\* Spec and the pipeline are idle
InitDaemon ==
    /\ DInit /\ LInit /\ HInit
    /\ WInit /\ startsAllowed = 1 /\ timeSteps = FineSteps
    /\ wOptions = OpenOptions /\ Quiet
    /\ PInit /\ fs = BaseFs

SpecDaemon == InitDaemon /\ [][NextDaemon]_vars

\* a Watcher started once on a system whose stat and registration calls can
\* fail, with the consumed events recorded: on the watched files, or on a
\* tree with excluded and later created subdirectories
InitEvents ==
    /\ WInit /\ PInit /\ fs = BaseFs
    /\ DInit /\ LInit /\ HInit /\ dConfig = <<"in">>
    /\ startsAllowed = 1
    /\ timeSteps = HourSteps
    /\ faulty = TRUE /\ traced = TRUE
    /\ \/ tree = NoTree /\ wOptions = DaemonOptions
       \/ tree = DirTree /\ wOptions \in {OpenOptions, FlatOptions}

SpecEvents == InitEvents /\ [][Next]_vars

\* the Logger under Log calls of handler units and Close calls of
\* Daemon.Stop; the Watcher, the pipeline and the Daemon are idle
InitLogger ==
    /\ LInit /\ HInit /\ DInit /\ dConfig = <<"in">>
    /\ WInit /\ startsAllowed = 1 /\ timeSteps = FineSteps
    /\ wOptions = OpenOptions /\ Quiet
    /\ PInit /\ fs = BaseFs

SpecLogger == InitLogger /\ [][NextLogger]_vars

\* the Daemon's handler, called by the units of the events for the files of
\* the directory; the Watcher of Spec, the Daemon and the Logger are idle
InitHandler ==
    /\ PInit /\ fs = BaseFs
    /\ HInit
    /\ WInit /\ startsAllowed = 1 /\ timeSteps = FineSteps
    /\ wOptions = DaemonOptions /\ Quiet
    /\ DInit /\ LInit /\ dConfig = <<"in">>

SpecHandler == InitHandler /\ [][NextHandler]_vars

----------------------------------------------------------------------------
(***************************************************************************)
(* Properties of the Watcher (checked under Spec)                          *)
(***************************************************************************)

\* the ages of a file that lies untouched long enough for any MinFileAge
SettledAge == DaemonMinFileAge

\* the time of the last dispatch of path p
LastDispatch(p) ==
    LET at == { dispatchLog[i].at :
                  i \in { j \in DOMAIN dispatchLog : dispatchLog[j].path = p } }
    IN  CHOOSE t \in at : \A u \in at : u <= t

\* C1: for a path that passes the extension filter, a second event within 60
\* seconds of the first dispatch never produces a second dispatch (also while
\* the first unit is in its settle delay or in the handler), and an event more
\* than 60 seconds after the last dispatch of the path is dispatched again.
C1_DedupeWindow ==
    /\ \A i, j \in DOMAIN dispatchLog :
          (i < j /\ dispatchLog[i].path = dispatchLog[j].path)
             => dispatchLog[j].at - dispatchLog[i].at >= DedupeWindow
    /\ \A p \in WatchedFiles :
          (/\ \E i \in DOMAIN dispatchLog : dispatchLog[i].path = p
           /\ now - LastDispatch(p) > DedupeWindow)
             => shouldProcessFile(wOptions, processed, now, p, SettledAge)

\* the entries of the sweep in progress that are older than one hour at the
\* time the sweep took the lock
SweepOld == { p \in DOMAIN sweepStart : sweepAt - sweepStart[p] > RetentionAge }

\* C10: a sweep removes exactly the entries older than 1 hour at sweep time,
\* holds the dedupe lock for the whole scan, and changes no retained entry.
C10_SweepExact ==
    \A i \in DOMAIN cleanupLoop :
       /\ cleanupLoop[i].pc \in {"scan", "swept"} => lockHolder = "cleanup"
       /\ cleanupLoop[i].pc = "scan" => processed = sweepStart
       /\ cleanupLoop[i].pc = "swept" =>
             processed = Restrict(sweepStart, DOMAIN sweepStart \ SweepOld)

\* a finished sweep that removed an entry 61 minutes old and kept a younger one
C10_Witness ==
    /\ \E i \in DOMAIN cleanupLoop : cleanupLoop[i].pc = "swept"
    /\ \E p \in DOMAIN sweepStart :
          /\ sweepAt - sweepStart[p] = RetentionAge + DedupeWindow
          /\ p \notin DOMAIN processed
    /\ \E q \in DOMAIN sweepStart :
          /\ sweepAt - sweepStart[q] \in 0..RetentionAge
          /\ q \in DOMAIN processed

----------------------------------------------------------------------------
(***************************************************************************)
(* Properties of the pipeline and the verifier (checked under SpecWipe)    *)
(***************************************************************************)

\* the stages after staging
LaterStages == {"wipe", "inject", "verify", "cleanup"}

\* the last component but one of a marker-named path
HasMarker(p) == Len(p) >= 2 /\ p[Len(p) - 1] = "volena"

\* C2: in copy mode, whatever the outcome, the original is after the call what
\* it was before the call: the stages work on the marker-named copy, whose
\* path differs from the original's.
C2_OriginalUntouched ==
    (wf.pc /= "idle" /\ wf.options.CreateCopy) =>
        /\ Exists(fs, wf.path) = Exists(wf.fs0, wf.path)
        /\ Exists(fs, wf.path) => fs[wf.path] = wf.fs0[wf.path]
        /\ "stage" \in wf.ran =>
              /\ wf.workingPath /= wf.path
              /\ HasMarker(wf.workingPath)
              /\ wf.result.OutputPath = wf.workingPath

\* a finished copy-mode run whose copy lost its metadata while the original
\* kept its own
C2_Witness ==
    /\ wf.pc = "done"
    /\ wf.options.CreateCopy
    /\ wf.path = Orig
    /\ wf.ran = {"validate", "analyze", "handler", "stage", "wipe", "inject", "verify"}
    /\ fs[wf.workingPath].meta /= CameraMeta
    /\ fs[Orig].meta = CameraMeta

\* Success as the contract derives it from a result
DerivedSuccess(result) ==
    /\ result.WipeErrors = <<>>
    /\ (result.Verification = Nil \/ result.Verification.Success)

\* C3 as stated: in every result WipeFile returns, also those returned with
\* an error by stages 1-4, Success holds if and only if WipeErrors is empty
\* and Verification is nil or successful.
C3_SuccessIffEveryResult ==
    wf.pc = "done" => (wf.result.Success <=> DerivedSuccess(wf.result))

\* C3 as amended: in every result returned with a nil error Success holds if
\* and only if WipeErrors is empty and Verification is nil or successful; a
\* result returned with an error has Success false; so in every returned
\* result Success implies the condition.
C3_SuccessDerived ==
    wf.pc = "done" =>
        /\ wf.err = NoErr => (wf.result.Success <=> DerivedSuccess(wf.result))
        /\ wf.err /= NoErr => ~wf.result.Success
        /\ wf.result.Success => DerivedSuccess(wf.result)

\* a result returned with a nil error whose only failure is the verification
C3_Witness ==
    /\ wf.pc = "done"
    /\ wf.err = NoErr
    /\ wf.result.WipeErrors = <<>>
    /\ wf.result.Verification /= Nil
    /\ ~wf.result.Verification.Success
    /\ ~wf.result.Success

\* C4: a failure of validation, analysis, handler resolution or staging makes
\* WipeFile return an error at once: no later stage runs, WipeErrors is empty,
\* Verification and Injection are nil; once staging succeeded the error
\* returned is nil.
C4_AbortPolicy ==
    /\ wf.err /= NoErr =>
          /\ wf.pc = "done"
          /\ wf.ran \cap LaterStages = {}
          /\ wf.result.WipeErrors = <<>>
          /\ wf.result.Verification = Nil
          /\ wf.result.Injection = Nil
    /\ wf.pc = "done" =>
          /\ (wf.err = NoErr) <=> ("wipe" \in wf.ran)
          /\ ~ValidatePath(wf.fs0, wf.path) => wf.err /= NoErr
          /\ ~IsSupported(DetectFile(wf.fs0, wf.path).Extension) => wf.err /= NoErr
          /\ (/\ wf.options.CreateCopy
              /\ "stage" \in wf.ran
              /\ \/ ~Exists(fs, wf.result.OutputPath)
                 \/ fs[wf.result.OutputPath] = PartialFile) => wf.err /= NoErr
    /\ wf.pc \in LaterStages => wf.err = NoErr

\* a call that failed at staging
C4_Witness ==
    /\ wf.pc = "done"
    /\ wf.ran = {"validate", "analyze", "handler", "stage"}
    /\ wf.err = "failed to create output file"
    /\ wf.result.SensitiveData /= {}

\* the number of entries of a sequence that equal e
Count(seq, e) == Cardinality({ i \in DOMAIN seq : seq[i] = e })

\* C5: a failing WipeMetadata adds one entry to WipeErrors and does not abort:
\* the Verifier still runs on the working path, its result is stored, the
\* error returned is nil and Success is false.
C5_RecordAndContinue ==
    /\ (wf.wipeFailed /\ wf.pc /= "done") => wf.pc \in {"inject", "verify", "cleanup"}
    /\ wf.wipeFailed =>
          /\ Count(wf.result.WipeErrors, "[X] Metadata wipe failed") = 1
          /\ wf.err = NoErr
          /\ "inject" \notin wf.ran
    /\ (wf.wipeFailed /\ wf.pc = "done") =>
          /\ "verify" \in wf.ran
          /\ wf.verified /= Nil
          /\ wf.verified.path = wf.workingPath
          /\ wf.result.Verification = wf.verified.out.result
          /\ ~wf.result.Success

\* a finished call whose wipe failed and whose verification flags passed
C5_Witness ==
    /\ wf.pc = "done"
    /\ wf.wipeFailed
    /\ wf.result.Verification /= Nil
    /\ wf.result.Verification.Success
    /\ ~wf.result.Success

\* C6: in backup mode, before the wipe stage touches the original, a ".bak"
\* sibling exists whose content equals the original's at the time of the
\* call, also when a ".bak" sibling existed before the call.
C6_BackupHoldsOriginal ==
    (wf.pc = "wipe" /\ ~wf.options.CreateCopy) =>
        /\ Exists(fs, BackupPathOf(wf.path))
        /\ fs[BackupPathOf(wf.path)].body = wf.fs0[wf.path].body
        /\ fs[BackupPathOf(wf.path)].meta = wf.fs0[wf.path].meta

\* C7 as stated: two copy-mode runs on the same original leave two
\* independent copies: the second run does not overwrite, truncate or change
\* the copy of the first, and neither run changes the original.
C7_IndependentCopies ==
    /\ Len(copies) >= 1 =>
          /\ Exists(fs, copies[1].out)
          /\ fs[copies[1].out] = copies[1].content
          /\ fs[copies[1].orig] = copies[1].before
    /\ Len(copies) = 2 => copies[2].out /= copies[1].out

\* C7 as amended: two copy-mode runs on the same original write the same
\* marker-named output path, which is not the original's: the second run
\* replaces the copy of the first by a fresh copy of the original, and neither
\* run changes the original.
C7_SameOutputPath ==
    Len(copies) = 2 =>
        /\ copies[2].orig = copies[1].orig
        /\ copies[2].out = copies[1].out
        /\ copies[1].out /= copies[1].orig
        /\ HasMarker(copies[1].out)
        /\ copies[2].before = copies[1].before
        /\ fs[copies[1].orig] = copies[1].before
        /\ fs[copies[2].out] = copies[2].content

\* two runs in a row on one original, the copy of the second differing from
\* what the first had left
C7_Witness ==
    /\ Len(copies) = 2
    /\ wf.pc = "done"
    /\ copies[1].content /= copies[2].content
    /\ copies[1].content.meta = NoMeta

\* the VerifyFile calls whose results the state holds: the direct call and
\* the call of stage 7
VerifyCalls ==
    (IF vf = Nil THEN {} ELSE {vf}) \cup
    (IF wf.verified = Nil THEN {} ELSE {wf.verified})

\* C8: every result of VerifyFile called with a nil expectedProfile, also the
\* results of a failed integrity check or returned with an error, has
\* ProfileInjected true and MissingFields empty.
C8_NilProfileVacuous ==
    \A c \in VerifyCalls :
        c.profile = Nil =>
            /\ c.out.result.ProfileInjected
            /\ c.out.result.MissingFields = {}

\* the handler's integrity check fails on the file at path p
IntegrityFails(p) ==
    /\ Exists(fs, p)
    /\ GetHandler(DetectFile(fs, p).Format) /= NoHandler
    /\ ~VerifyIntegrity(GetHandler(DetectFile(fs, p).Format), fs[p])

\* C9: after a failed integrity check VerifyFile returns FileIntact false and
\* Success false with a nil error, does not analyze the file again and leaves
\* RemainingFields and MissingFields unset; in every result Success equals
\* FileIntact and MetadataRemoved and ProfileInjected.
C9_IntegrityShortCircuit ==
    \A c \in VerifyCalls :
        /\ IntegrityFails(c.path) =>
              /\ ~c.out.result.FileIntact
              /\ ~c.out.result.Success
              /\ c.out.err = NoErr
              /\ ~c.out.analyzed
              /\ c.out.result.RemainingFields = {}
              /\ c.out.result.MissingFields = {}
        /\ c.out.result.Success =
              (/\ c.out.result.FileIntact
               /\ c.out.result.MetadataRemoved
               /\ c.out.result.ProfileInjected)

\* stage 7 verified a working file that the wipe had damaged
C9_Witness ==
    /\ wf.verified /= Nil
    /\ IntegrityFails(wf.verified.path)
    /\ wf.verified.out.result.ValidationErrors = <<"File integrity check failed">>
    /\ fs[wf.verified.path].meta = NoMeta

----------------------------------------------------------------------------
(***************************************************************************)
(* Properties of the Daemon and of the daemon command (checked under       *)
(* SpecDaemon)                                                             *)
(***************************************************************************)

\* the positions of the listed paths that exist and are directories
ValidPositions(dirs) == { i \in DOMAIN dirs : DirKind(dirs[i]) = "dir" }

\* the k-th smallest element of a set of positions
KthOf(S, k) == CHOOSE i \in S : Cardinality({ j \in S : j <= i }) = k

\* C11: NewWatcher returns an error if and only if the subscription cannot be
\* created or no listed path exists and is a directory; otherwise the Watcher
\* holds exactly the valid directories, in input order.
C11_NewWatcherValidDirs ==
    lastNew # Nil =>
       LET dirs == lastNew.dirs
           out  == lastNew.out
           ok   == ValidPositions(dirs)
       IN  /\ (out.err # NoErr) <=> (~lastNew.subOk \/ ok = {})
           /\ out.err = NoErr =>
                 /\ Len(out.dirs) = Cardinality(ok)
                 /\ \A k \in DOMAIN out.dirs : out.dirs[k] = dirs[KthOf(ok, k)]

\* a Watcher built from a list with an invalid path between two directories
C11_Witness ==
    /\ lastNew # Nil
    /\ lastNew.dirs = <<"out", "gone", "in">>
    /\ lastNew.out = [err |-> NoErr, dirs |-> <<"out", "in">>]

----------------------------------------------------------------------------
(***************************************************************************)
(* Properties of the life cycle of a Watcher (checked under SpecLife)      *)
(***************************************************************************)

\* C12: Start on a running watcher returns an error and launches nothing, so
\* a running watcher has at most one live event loop and at most one live
\* cleanup loop.
C12_OneLoopPair ==
    running =>
       /\ Cardinality(LiveEventLoops) <= 1
       /\ Cardinality(LiveCleanupLoops) <= 1

\* the watcher has been stopped and not started again
Stopped == ~subOpen /\ ~running /\ startPc = "idle"

InFlight(id) == \E u \in units : u.id = id

Dispatched(p) == \E i \in DOMAIN dispatchLog : dispatchLog[i].path = p

\* C14: in daemon mode a file with an allowed extension whose create/write
\* event was consumed while the file was younger than the minimum age is
\* eventually passed to the handler (no further event for the file is asked
\* for: the environment is free never to send one).
C14_EventuallyHandled ==
    \A p \in WatchedFiles : (p \in skipped) ~> Dispatched(p)

----------------------------------------------------------------------------
(***************************************************************************)
(* Properties of Daemon.Start and Daemon.Stop (checked under SpecDaemon)   *)
(***************************************************************************)

\* the step is a call of Daemon.Stop
IsStopCall == dCalls' = dCalls + 1 /\ dRet'.op = "Stop"

DaemonUnchanged == UNCHANGED <<dRunning, dWatcher, watchers, loggerInit>>

\* C15: Daemon.Stop on a daemon that is not running returns nil and changes
\* nothing; on a running daemon it stops the watcher, logging and never
\* returning the watcher's error, closes the logger and returns the logger's
\* error; a Stop that follows a Stop returns nil and changes nothing.
C15_StopIdempotent ==
    [][IsStopCall =>
         /\ ~dRunning => (dRet'.err = NoErr /\ DaemonUnchanged)
         /\ dRet.op = "Stop" => (dRet'.err = NoErr /\ DaemonUnchanged)
         /\ (dRunning /\ dRet.op # "Stop") =>
               /\ ~watchers'[dWatcher].running
               /\ ~loggerInit'
               /\ ~dRet'.in[1] => "Error stopping watcher" \in dLogged'
               /\ (dRet'.err # NoErr) <=> ~dRet'.in[2]
       ]_vars

\* the step is a call of Daemon.Start
IsStartCall == dCalls' = dCalls + 1 /\ dRet'.op = "Start"

ActiveWatchers == { i \in DOMAIN watchers : watchers[i].running }

\* C16 as stated: a Start on a running daemon is refused, after a Start that
\* failed the daemon is not running and has no watcher attached, and at most
\* one watcher is active.
C16_NoWatcherAfterFailure ==
    /\ (dRet.op = "Start" /\ dRet.err = "daemon already running") => dRunning
    /\ (dRet.op = "Start" /\ dRet.err \in {"failed to create watcher",
                                          "failed to start watcher"})
          => (~dRunning /\ dWatcher = 0)
    /\ Cardinality(ActiveWatchers) <= 1

\* C16 (amended): a Start on a running daemon returns an error and builds no
\* watcher; a Start that fails returns an error and leaves the daemon as it
\* was, not running, the watcher field holding nil or the stopped watcher of
\* an earlier run; a Start that succeeds attaches the one new running
\* watcher; at most one watcher is active at any time.
C16_StartGuarded ==
    /\ [][IsStartCall =>
            /\ dRunning => (dRet'.err # NoErr /\ DaemonUnchanged)
            /\ (~dRunning /\ dRet'.err # NoErr) =>
                  /\ DaemonUnchanged
                  /\ dWatcher' # 0 => ~watchers'[dWatcher'].running
            /\ (~dRunning /\ dRet'.err = NoErr) =>
                  /\ dRunning'
                  /\ watchers' = Append(watchers, watchers'[Len(watchers')])
                  /\ dWatcher' = Len(watchers')
                  /\ watchers'[dWatcher'].running
         ]_vars
    /\ [](Cardinality(ActiveWatchers) <= 1)

\* a Start that failed on a daemon that had been started and stopped before
C16_Witness ==
    /\ dRet.op = "Start"
    /\ dRet.err = "failed to create watcher"
    /\ ~dRunning
    /\ dWatcher # 0
    /\ ~watchers[dWatcher].running

\* C17: after `daemon off` has reported the daemon stopped no daemon process
\* is watching, `daemon status` reports running exactly when a daemon process
\* is watching, and at most one daemon process watches at any time.
C17_OffStopsDaemon ==
    /\ cliOut = "Daemon stopped" => daemonProcs = 0
    /\ cliOut = "Daemon is running" => daemonProcs >= 1
    /\ cliOut = "Daemon is not running" => daemonProcs = 0
    /\ daemonProcs <= 1

----------------------------------------------------------------------------
(***************************************************************************)
(* Properties of the Watcher's tasks (checked under SpecLife)              *)
(***************************************************************************)

\* two tasks are about to touch the same field and one of them writes it
Concurrent(a, b) ==
    /\ a.task # b.task
    /\ a.field = b.field
    /\ (a.kind = "write" \/ b.kind = "write")

\* C18: whenever two of the watcher's tasks are about to touch the same field
\* and one of them writes it, the field is the processed map and both hold
\* the dedupe mutex.
C18_OnlyLockedSharing ==
    \A a, b \in NextAccesses :
       Concurrent(a, b) => (a.field = "processed" /\ a.locked /\ b.locked)

\* the cleanup loop launched by the last Start
LastCleanupLoop == cleanupLoop[Len(cleanupLoop)]

\* C19: while the watcher is running (Start has returned and Stop has not
\* been called) the cleanup loop that Start launched is alive, so a pending
\* tick is always followed by a sweep.
C19_CleanupAliveWhileRunning ==
    running => LastCleanupLoop.pc # "exited"

----------------------------------------------------------------------------
(***************************************************************************)
(* The timestamp of a unit (checked under Spec)                            *)
(***************************************************************************)

\* C20: when a unit's handler has returned, with or without an error, the
\* processed map holds the path with the time of that return, and for the
\* following 60 seconds no event for the path passes shouldProcessFile,
\* whatever the file's age.
C20_FailureRecorded ==
    (lastFinish # Nil /\ now - lastFinish.at < DedupeWindow) =>
       /\ lastFinish.path \in DOMAIN processed
       /\ processed[lastFinish.path] = lastFinish.at
       /\ \A age \in FileAges :
             ~shouldProcessFile(wOptions, processed, now, lastFinish.path, age)

\* a handler failed half a second ago and an event for its path is rejected
C20_Witness ==
    /\ lastFinish # Nil
    /\ ~lastFinish.ok
    /\ now - lastFinish.at = SettleDelay
    /\ ExtensionAllowed(wOptions, lastFinish.path)
    /\ ~shouldProcessFile(wOptions, processed, now, lastFinish.path, SettledAge)

----------------------------------------------------------------------------
(***************************************************************************)
(* Properties of the event loop (checked under SpecEvents)                 *)
(***************************************************************************)

\* the step consumed a create/write event that went through shouldProcessFile
FileEventStep ==
    /\ lastEvent' # lastEvent
    /\ lastEvent'.path # <<>>
    /\ ~(wOptions.Recursive /\ lastEvent'.path \in DirPaths)

\* (a) the allow-list is empty or holds the extension, both lower-cased
C21_ExtensionOk(p) ==
    \/ wOptions.Extensions = <<>>
    \/ \E i \in DOMAIN wOptions.Extensions :
          /\ Ext(p) # <<>>
          /\ ToLower(Ext(p)[1]) = ToLower(wOptions.Extensions[i])

\* (b) no minimum age, or the stat succeeded and the file is old enough
C21_AgeOk(age) ==
    \/ wOptions.MinFileAge = 0
    \/ /\ age # StatFailed
       /\ age >= wOptions.MinFileAge

\* (c) no entry for the path, or one that is at least 60 s old
C21_EntryOk(p) ==
    \/ p \notin DOMAIN processed
    \/ now - processed[p] >= DedupeWindow

\* C21: an event is accepted exactly when the extension passes the
\* allow-list, the file passes the minimum age and the path has no entry
\* younger than 60 s; an accepted event spawns one unit, a rejected event
\* spawns none, and neither changes the processed map.
C21_ShouldProcess ==
    [][FileEventStep =>
         /\ lastEvent'.accepted <=>
               /\ C21_ExtensionOk(lastEvent'.path)
               /\ C21_AgeOk(lastEvent'.age)
               /\ C21_EntryOk(lastEvent'.path)
         /\ processed' = processed
         /\ IF lastEvent'.accepted
            THEN /\ Len(dispatchLog') = Len(dispatchLog) + 1
                 /\ Cardinality(units') = Cardinality(units) + 1
            ELSE /\ units' = units
                 /\ dispatchLog' = dispatchLog
      ]_vars

\* an event for an allowed, old enough file was rejected for its entry in
\* the processed map
C21_Witness ==
    /\ lastEvent # Nil
    /\ lastEvent.path \in WatchedFiles
    /\ ~lastEvent.accepted
    /\ C21_ExtensionOk(lastEvent.path)
    /\ C21_AgeOk(lastEvent.age)
    /\ lastEvent.path \in DOMAIN processed
    /\ now - processed[lastEvent.path] < DedupeWindow
    /\ Len(dispatchLog) >= 1

\* the step consumed an event for a directory in recursive mode
DirEventStep ==
    /\ lastEvent' # lastEvent
    /\ wOptions.Recursive
    /\ lastEvent'.path \in DirPaths

\* some component of the path has an exclusion entry as a substring
C22_Matches(d) ==
    \E k \in DOMAIN d :
        d[k] \in {".git", "node_modules", ".venv", "my.github"}

\* C22: in recursive mode no unit is ever spawned for a directory; an event
\* for a directory that matches no exclusion entry passes it to the
\* subscription's Add (it is in the watch set when Add succeeds) and does
\* nothing else; an event for a directory that matches one does nothing; no
\* directory that matches an exclusion entry is ever in the watch set,
\* neither from the walk of Start nor from an event.
C22_Directories ==
    /\ [](wOptions.Recursive =>
            /\ \A i \in DOMAIN dispatchLog : dispatchLog[i].path \notin DirPaths
            /\ \A d \in watchSet : ~C22_Matches(d))
    /\ [][DirEventStep =>
            /\ units' = units
            /\ dispatchLog' = dispatchLog
            /\ processed' = processed
            /\ IF C22_Matches(lastEvent'.path)
               THEN /\ lastEvent'.add = "none"
                    /\ watchSet' = watchSet
               ELSE /\ lastEvent'.add \in {"ok", "failed"}
                    /\ lastEvent'.add = "ok" =>
                          watchSet' = watchSet \cup {lastEvent'.path}
                    /\ lastEvent'.add = "failed" => watchSet' = watchSet
       ]_vars

\* Start registered the root and the subdirectory that is not excluded, a
\* later directory was registered by its event, and the event for a
\* directory that has an exclusion entry inside its name was consumed
C22_Witness ==
    /\ wOptions.Recursive
    /\ watchSet = {Root, <<"in", "sub">>, <<"in", "new">>}
    /\ lastEvent # Nil
    /\ lastEvent.path = <<"in", "my.github">>
    /\ tree.atStart = StartDirs

\* a step of a Start call on a watcher that is not running
StartStep ==
    /\ ~running
    /\ startPc' # startPc \/ startErr' # startErr

\* C23: failures for single paths and single events do not stop the watcher.
\* A Start call on a watcher that is not running launches the two loops and
\* returns success whichever registrations failed; the event loop has
\* returned only when the subscription is closed, so it is still consuming
\* after an error event and after a handler unit returned an error.
C23_FailuresNotFatal ==
    /\ [](\A i \in DOMAIN eventLoop : eventLoop[i] = "exited" => ~subOpen)
    /\ [][StartStep =>
            IF startPc = "idle"
            THEN /\ startPc' = "launched"
                 /\ Len(eventLoop') = Len(eventLoop) + 1
                 /\ Len(cleanupLoop') = Len(cleanupLoop) + 1
            ELSE /\ startPc' = "idle"
                 /\ startErr' = NoErr
                 /\ running'
       ]_vars

\* Start returned success although the registration of a subdirectory
\* failed; the loop has consumed an event for a new directory and an error
\* event and is alive
C23_Witness ==
    /\ running
    /\ startErr = NoErr
    /\ wOptions.Recursive
    /\ tree.atStart = StartDirs
    /\ <<"in", "sub">> \notin watchSet
    /\ LiveEventLoops # {}
    /\ lastEvent = ErrorEvent
    /\ <<"in", "new">> \in watchSet

----------------------------------------------------------------------------
(***************************************************************************)
(* Independence of the goroutines (checked under Spec)                     *)
(***************************************************************************)

\* an event for p would pass shouldProcessFile now
C24_Acceptable(p) ==
    /\ LiveEventLoops # {}
    /\ subOpen
    /\ Parent(p) \in watchSet
    /\ Len(dispatchLog) < MaxDispatch
    /\ C21_ExtensionOk(p)
    /\ C21_EntryOk(p)

\* C24: while a handler runs (and may never return) processLock is free
\* or held by the sweep, never by a unit; as soon as it is free an event for
\* another path that passes the filters is dispatched, another unit whose
\* handler returns can record its path, and a cleanup loop with a pending
\* tick can start its sweep.
C24_HungHandlerBlocksNothing ==
    \A u \in units : u.phase = "handling" =>
        /\ lockHolder \in {"none", "cleanup"}
        /\ lockHolder = "none" =>
              /\ \A p \in tree.files \ {u.path} : C24_Acceptable(p) =>
                    ENABLED (/\ HandleEvent(p, DaemonMinFileAge, TRUE)
                             /\ Len(dispatchLog') = Len(dispatchLog) + 1)
              /\ \A v \in units \ {u} : v.phase = "handling" =>
                    ENABLED UnitFinish(v, TRUE)
              /\ \A i \in DOMAIN cleanupLoop :
                    cleanupLoop[i].pc = "poll" /\ cleanupLoop[i].tickPending
                      => ENABLED CleanupTick(i)

\* the first unit is still inside its handler; the second, for the other
\* file, was dispatched after the first had entered it and has finished
C24_Witness ==
    /\ Len(dispatchLog) = 2
    /\ \E u \in units : u.id = 1 /\ u.phase = "handling"
    /\ Cardinality(units) = 1
    /\ dispatchLog[2].path # dispatchLog[1].path
    /\ dispatchLog[2].at >= dispatchLog[1].at + SettleDelay
    /\ lastFinish # Nil
    /\ lastFinish.path = dispatchLog[2].path

----------------------------------------------------------------------------
(***************************************************************************)
(* Properties of the Logger (checked under SpecLogger)                     *)
(***************************************************************************)

\* the step is the check of a Close call that follows a completed one
SecondCloseStep(k) ==
    /\ k \in DOMAIN closeCalls
    /\ k > 1
    /\ closeCalls[k].pc = "entered"
    /\ closeCalls'[k].pc # "entered"

----------------------------------------------------------------------------
(***************************************************************************)
(* Properties of the later stages of WipeFile (checked under SpecWipe)     *)
(***************************************************************************)

\* C26: the injector is invoked exactly when InjectProfile is set and
\* WipeErrors is empty after the wipe stage; an error it returns is appended
\* to WipeErrors, nothing else is; the call goes on to the Verifier, which
\* runs in every call that reached the wipe stage.
C26_InjectThenVerify ==
    /\ [](wf.pc \in {"cleanup", "done"} /\ "wipe" \in wf.ran =>
             "verify" \in wf.ran)
    /\ [][wf.pc = "inject" /\ wf'.pc # "inject" =>
            /\ wf'.pc = "verify"
            /\ "inject" \in wf'.ran <=>
                  wf.options.InjectProfile /\ wf.result.WipeErrors = <<>>
            /\ IF "inject" \in wf'.ran
               THEN wf'.result.WipeErrors =
                      IF wf'.injectErr # NoErr
                      THEN <<"[X] Profile injection failed">>
                      ELSE <<>>
               ELSE wf'.result = wf.result /\ fs' = fs
       ]_vars

\* the injector ran and returned an error, the Verifier ran after it and the
\* call has returned its result
C26_Witness ==
    /\ wf.pc = "done"
    /\ wf.injectErr # NoErr
    /\ wf.ran = {"validate", "analyze", "handler", "stage", "wipe", "inject",
                 "verify"}
    /\ wf.result.Verification # Nil
    /\ wf.result.WipeErrors[1] = "[X] Profile injection failed"

\* a backup-mode call that has reached the cleanup stage
BackupModeAt(pc) ==
    /\ wf.pc = pc
    /\ "verify" \in wf.ran
    /\ ~wf.options.CreateCopy

\* CreateCopy=false, KeepBackup=false, BackupPath set, WipeErrors empty
C27_DeletionDue ==
    /\ ~wf.options.CreateCopy
    /\ ~wf.options.KeepBackup
    /\ wf.result.BackupPath # <<>>
    /\ wf.result.WipeErrors = <<>>

\* C27: the cleanup stage touches the backup file, and nothing else, only
\* when CreateCopy and KeepBackup are false, BackupPath is set and WipeErrors
\* is empty; in every other backup-mode call the backup file exists and
\* BackupPath names it when WipeFile returns.
C27_CleanupOnlyWhenDue ==
    /\ [](BackupModeAt("done") =>
            \/ ~wf.options.KeepBackup /\ wf.result.WipeErrors = <<>>
            \/ /\ Exists(fs, BackupPathOf(wf.path))
               /\ wf.result.BackupPath = BackupPathOf(wf.path))
    /\ [][wf.pc = "cleanup" /\ wf'.pc = "done" =>
            /\ fs' # fs =>
                  /\ C27_DeletionDue
                  /\ \A p \in DOMAIN fs \ {wf.result.BackupPath} :
                        p \in DOMAIN fs' /\ fs'[p] = fs[p]
            /\ wf'.result.BackupPath # wf.result.BackupPath => C27_DeletionDue
       ]_vars

\* a backup-mode call without KeepBackup returned with a recorded error: the
\* backup is still there and the result names it
C27_Witness ==
    /\ BackupModeAt("done")
    /\ ~wf.options.KeepBackup
    /\ wf.result.WipeErrors # <<>>
    /\ Exists(fs, BackupPathOf(wf.path))
    /\ wf.result.BackupPath = BackupPathOf(wf.path)

\* C28: BackupPath is cleared only when the deletion succeeded: a
\* backup-mode result with an empty BackupPath means that the backup file no
\* longer exists.
C28_ClearedOnlyWhenDeleted ==
    (BackupModeAt("done") /\ wf.result.BackupPath = <<>>) =>
        ~Exists(fs, BackupPathOf(wf.path))

----------------------------------------------------------------------------
(***************************************************************************)
(* Properties of the Verifier's profile check (checked under SpecWipe)     *)
(***************************************************************************)

\* strings.ToLower on the values of the model
C29_LowerValue(v) == IF v = "John Doe" THEN "john doe" ELSE v

\* ':' and '-' brought to a common form
C29_NormalizeDate(v) ==
    CASE v = "2000-01-01" -> "2000:01:01"
      [] v = "2026-01-01" -> "2026:01:01"
      [] OTHER -> v

\* the normalized actual value begins with the normalized expected value
C29_DatePrefix(actual, expected) ==
    \/ C29_NormalizeDate(actual) = C29_NormalizeDate(expected)
    \/ <<C29_NormalizeDate(actual), C29_NormalizeDate(expected)>> \in
          { <<"2000:01:01 00:00:00", "2000:01:01">> }

\* the values match as the class of the profile key demands
C29_ValuesMatch(key, actual, expected) ==
    IF LowerKey(key) \in DateVariations
    THEN C29_DatePrefix(actual, expected)
    ELSE C29_LowerValue(actual) = C29_LowerValue(expected)

\* some metadata key is alias-equivalent to the profile key and holds a
\* matching value
C29_Present(meta, key, expected) ==
    \E metaKey \in DOMAIN meta :
        /\ KeysMatch(metaKey, key)
        /\ C29_ValuesMatch(key, meta[metaKey], expected)

\* C29: in the result of a VerifyFile call that compared the metadata with
\* an expected profile, MissingFields is exactly the set of the non-empty
\* profile fields that are not present, where present means: an
\* alias-equivalent metadata key holds a value that matches (dates after
\* normalizing the separators and up to a prefix, all others up to case);
\* ProfileInjected is true exactly when MissingFields is empty.
C29_FieldPresence ==
    (/\ vf # Nil
     /\ vf.profile # Nil
     /\ vf.out.err = NoErr
     /\ vf.out.result.FileIntact) =>
        /\ vf.out.result.MissingFields =
              { key \in DOMAIN vf.profile :
                  /\ vf.profile[key] # ""
                  /\ ~C29_Present(fs[vf.path].meta, key, vf.profile[key]) }
        /\ vf.out.result.ProfileInjected <=> vf.out.result.MissingFields = {}

----------------------------------------------------------------------------
(***************************************************************************)
(* Properties of the Profile Injector (checked under SpecWipe)             *)
(***************************************************************************)

\* the literal tokens that request a dynamic value
C30_Placeholders == {"{{now}}", "{{random}}"}

\* the handler of the injector's call wrote the profile
C30_HandlerWrote ==
    /\ "inject" \in wf.ran
    /\ wf.result.Injection # Nil
    /\ wf.injectErr \in {NoErr, "failed to verify injection"}

\* C30: the Profile field of a ProfileInjectionResult returned after a
\* successful handler write is the profile after the substitution of the
\* dynamic values: it has the keys of the profile in use, none of its values
\* is a placeholder token, and the values that were no placeholders are
\* unchanged.
C30_ProfileResolved ==
    C30_HandlerWrote =>
        LET used == IF wf.options.CustomProfile # Nil
                    THEN wf.options.CustomProfile ELSE LoadedProfile
            got == wf.result.Injection.Profile
        IN  /\ DOMAIN got = DOMAIN used
            /\ \A k \in DOMAIN got :
                  /\ got[k] \notin C30_Placeholders
                  /\ used[k] \notin C30_Placeholders => got[k] = used[k]

----------------------------------------------------------------------------
(***************************************************************************)
(* Properties of the injection result (checked under SpecWipe)             *)
(***************************************************************************)

\* InjectProfile has just returned to WipeFile: the file is as it left it
C31_Returned ==
    /\ wf.pc = "verify"
    /\ "inject" \in wf.ran
    /\ wf.result.Injection # Nil

\* the profile InjectProfile wrote and verified
C31_Resolved ==
    processDynamicFields(
        IF wf.options.CustomProfile # Nil THEN wf.options.CustomProfile
        ELSE LoadedProfile,
        CHOOSE r \in RandomIds : TRUE)

\* the fields the post-injection verification reports missing (it returned
\* no error, so the metadata tool ran wherever it was called)
C31_ReportedMissing ==
    VerifyFile(fs, wf.workingPath, C31_Resolved, TRUE).result.MissingFields

\* C31: when InjectProfile returns without error, FieldsAdded and FieldsFailed
\* partition the keys of the resolved profile, a key is in FieldsFailed iff
\* the post-injection verification reports it missing, and Success is true
\* iff FieldsFailed is empty; on an error return Success is false and both
\* lists are empty.
C31_FieldsClassified ==
    C31_Returned =>
        LET inj == wf.result.Injection
        IN  IF wf.injectErr = NoErr
            THEN /\ inj.FieldsAdded \cap inj.FieldsFailed = {}
                 /\ inj.FieldsAdded \cup inj.FieldsFailed = DOMAIN C31_Resolved
                 /\ inj.FieldsFailed = DOMAIN C31_Resolved \cap C31_ReportedMissing
                 /\ inj.Success <=> inj.FieldsFailed = {}
            ELSE /\ ~inj.Success
                 /\ inj.FieldsAdded = {}
                 /\ inj.FieldsFailed = {}

----------------------------------------------------------------------------
(***************************************************************************)
(* Properties of the Daemon's file handler (checked under SpecHandler)     *)
(***************************************************************************)

\* C32: the Daemon's handler never modifies the file it is called with: when
\* the analysis reports no sensitive field it returns without calling
\* WipeFile and without writing a file, otherwise it calls WipeFile on the
\* path with InjectProfile=true, CustomProfile=nil, CreateCopy=true,
\* KeepBackup=true, SecureDelete=false; it returns an error exactly when the
\* analysis or WipeFile itself returned one.
C32_HandlerPolicy ==
    hd.pc # "idle" =>
        /\ Exists(fs, hd.path) = Exists(hd.fs0, hd.path)
        /\ Exists(fs, hd.path) => fs[hd.path] = hd.fs0[hd.path]
        /\ hd.wiped <=> (hd.analysed /\ hd.sensitive # {})
        /\ ~hd.wiped => fs = hd.fs0
        /\ hd.wiped =>
              /\ wf.path = hd.path
              /\ wf.options = WipeOptions(TRUE, Nil, TRUE, TRUE, FALSE)
        /\ hd.pc = "done" =>
              (hd.err # NoErr <=> (~hd.analysed \/ (hd.wiped /\ wf.err # NoErr)))

\* the handler has wiped the copy of a watched JPEG and returned nil, the
\* original holding its metadata
C32_Witness ==
    /\ hd.pc = "done"
    /\ hd.path = Orig
    /\ hd.wiped
    /\ hd.err = NoErr
    /\ wf.result.Success
    /\ fs[Orig].meta = CameraMeta
    /\ fs[GenerateOutputPath(Orig)].meta # CameraMeta

----------------------------------------------------------------------------
(***************************************************************************)
(* Properties of the result of WipeFile (checked under SpecWipe)           *)
(***************************************************************************)

\* WipeFile has returned (result, nil) from a run in backup mode
C33_ReturnedInPlace ==
    /\ wf.pc = "done"
    /\ wf.err = NoErr
    /\ ~wf.options.CreateCopy

\* C33: in backup mode, whenever WipeFile returns a result with
\* Success=false (recorded errors or a failed verification), the ".bak"
\* backup of the original still exists in the directory.
C33_BackupKeptOnFailure ==
    (C33_ReturnedInPlace /\ ~wf.result.Success) =>
        Exists(fs, BackupPathOf(wf.path))

\* WipeFile has returned from a run that called the injector
C34_RanInjector ==
    /\ wf.pc = "done"
    /\ "inject" \in wf.ran
    /\ wf.result.Injection # Nil

\* C34: whenever WipeFile ran the injector, Success=true implies
\* Injection.Success=true: an injection in which a profile field failed to be
\* added never yields an overall Success=true.
C34_SuccessImpliesInjected ==
    (C34_RanInjector /\ wf.result.Success) => wf.result.Injection.Success

\* the injector returned Success=true and the final verification of the same
\* call returned a result without an error
C35_InjectedAndVerified ==
    /\ wf.pc \in {"cleanup", "done"}
    /\ "inject" \in wf.ran
    /\ wf.injectErr = NoErr
    /\ wf.result.Injection # Nil
    /\ wf.result.Injection.Success
    /\ wf.verified # Nil
    /\ wf.verified.out.err = NoErr

\* C35: the final verification of WipeFile checks the file against the
\* resolved profile the injector wrote: when the injector reported
\* Success=true (the file is not written between the two), the final
\* Verification has ProfileInjected=true, also for a CustomProfile with
\* dynamic placeholder values.
C35_SameResolvedProfile ==
    C35_InjectedAndVerified => wf.result.Verification.ProfileInjected

----------------------------------------------------------------------------
(***************************************************************************)
(* Properties of the handlers' tag names (checked under SpecWipe)          *)
(***************************************************************************)

\* the handlers that write a profile through a key-mapping table
C36_Handlers == {"image", "video", "audio"}

\* the native tag under which a handler writes a generic profile key
C36_Tag(handler, key) ==
    CASE handler = "image" -> mapProfileKeyToExifTag(key)
      [] handler = "video" -> mapProfileKeyToVideoTag(key)
      [] handler = "audio" -> mapProfileKeyToAudioTag(key)
      [] OTHER -> ""

\* the metadata of a file into which a handler has written every mapped key
\* of a profile, each with the value of the profile
C36_Written(handler, profile) ==
    LET mapped == { k \in DOMAIN profile : C36_Tag(handler, k) # "" }
        tags == { C36_Tag(handler, k) : k \in mapped }
    IN  [t \in tags |->
            profile[CHOOSE k \in mapped : C36_Tag(handler, k) = t]]

\* C36: for every handler with a key-mapping table (image, video, audio) and
\* every profile key the table maps, the native tag is alias-equivalent to
\* the key under KeysMatch, so the Verifier does not report as missing a
\* field the handler wrote with the value of the profile.  Checked on the
\* profile each injector call has resolved.
C36_TagsAliasEquivalent ==
    (C31_Returned /\ wf.injectErr = NoErr) =>
        \A h \in C36_Handlers : \A k \in DOMAIN C31_Resolved :
            C36_Tag(h, k) # "" =>
                /\ KeysMatch(C36_Tag(h, k), k)
                /\ k \notin verifyProfileFields(C36_Written(h, C31_Resolved),
                                                C31_Resolved)

----------------------------------------------------------------------------
(***************************************************************************)
(* The running flag of a Watcher (checked under SpecLife)                  *)
(***************************************************************************)

\* C37: whenever the running flag of a Watcher is true, its subscription is
\* open and an event loop of it is alive, after any sequence of Start and
\* Stop calls on the Watcher.
C37_RunningMeansWatching ==
    running => (subOpen /\ LiveEventLoops # {})

----------------------------------------------------------------------------
(***************************************************************************)
(* The running flag of the Daemon (checked under SpecDaemon)               *)
(***************************************************************************)

\* the Watcher the Daemon holds is running
C38_WatcherRunning == dWatcher # 0 /\ watchers[dWatcher].running

\* C38: after every operation on the Daemon, whether it returned an error or
\* not, the running flag of the Daemon is true if and only if its Watcher is
\* running; after Stop has returned the Daemon is not running.
C38_RunningAgrees ==
    /\ dRunning <=> C38_WatcherRunning
    /\ dRet.op = "Stop" => ~dRunning

----------------------------------------------------------------------------
(***************************************************************************)
(* The Daemon and its own output (checked under SpecHandler)               *)
(***************************************************************************)

\* the number of markers in a name: 0 for a file somebody put into the
\* directory, n for the output of the handler on a file with n - 1 markers
C39_Generation(p) == Cardinality({ i \in DOMAIN p : p[i] = "volena" })

\* C39: the Daemon does not feed on its own output without bound: the
\* marker-named copy the handler writes into the watched directory leads to
\* finitely many further dispatches and copies.  Each WipeFile call of the
\* handler adds one marker to the name it is given, so a bounded feed keeps
\* the number of markers of every file below the number of WipeFile calls
\* made: not every call works on the output of the call before it.
C39_BoundedFeed ==
    \A p \in DOMAIN fs \cup hUnits : C39_Generation(p) < MaxCalls

====
